---- MODULE Spec2Model ----
(***************************************************************************)
(* Client-side data-access and session layer of the self-storage booking   *)
(* portal: the typed API client (api.ts), the login modal, the application *)
(* shell, the admin page, and the pages that manage bookings and boxes.    *)
(*                                                                         *)
(* The backend is the environment: every response (status, body, decoded   *)
(* JSON) is a nondeterministic choice, as is a fetch that rejects.         *)
(* An async handler is one action up to each await and one action for the  *)
(* continuation after it, so other handlers interleave at the awaits.      *)
(***************************************************************************)
EXTENDS Integers, Sequences, FiniteSets, TLC

VARIABLES
    apiBaseUrl,   \* import.meta.env.VITE_API_BASE_URL seen by api.ts, LoginModal, BookingPage
    token,        \* localStorage["access_token"]
    sent,         \* HTTP requests issued by the last step
    ev,           \* the handler step that ran last
    api,          \* API client: the call a caller has outstanding and its outcome
    bp,           \* BookingPage component state
    lm,           \* LoginModal component state
    shell,        \* AppShell component state
    ap,           \* AdminPage component state
    page,         \* which booking/box page is mounted
    dash,         \* AdminDashboardPage component state
    mb,           \* MyBookings component state
    ab,           \* AdminBoxes component state
    panel,        \* AdminPanel component state
    bl            \* BoxList component state

vars == <<apiBaseUrl, token, sent, ev, api, bp, lm, shell, ap, page, dash, mb, ab, panel, bl>>

-----------------------------------------------------------------------------
(* Values *)

\* JavaScript null / undefined
NULL == "NULL"

\* !value for a string-or-null value
Falsy(v) == v = NULL \/ v = ""

Tokens == {"t1", "t2"}

ConfiguredBase == "https://api.example"
LocalBase == "http://127.0.0.1:8000"

\* txt.slice(0, 200) of getMe / getAvailableBoxes and the pages
SliceShort == 200
\* text.slice(0, 300) of createMyBooking and AdminBoxes.handleApiError
SliceLong == 300

\* longest response body the backend sends in the model
MaxBodyLen == 301

Min(a, b) == IF a < b THEN a ELSE b

Body(n) == [i \in 1..n |-> "x"]

BodyLens == {0, 1, SliceShort + 1, MaxBodyLen}

Statuses == {200, 401, 403, 404, 500}

\* a fetch settles with a Response, or rejects (net = "fail"); json tells whether
\* the body of a 2xx response decodes (res.json() resolves) or not (it rejects)
Responses ==
    [net : {"ok"}, status : Statuses \ {200}, body : {Body(n) : n \in BodyLens}, json : {"valid"}]
    \cup [net : {"ok"}, status : {200}, body : {Body(0)}, json : {"valid", "malformed"}]
    \cup {[net |-> "fail", status |-> 0, body |-> <<>>, json |-> "valid"]}

\* Response.ok
Ok(res) == res.status >= 200 /\ res.status <= 299

\* String.prototype.slice(0, n)
Slice(s, n) == SubSeq(s, 1, Min(n, Len(s)))

\* the text "Unbekannter Fehler" that replaces an empty body prefix
UnknownErrorText == <<"U","n","b","e","k","a","n","n","t","e","r"," ","F","e","h","l","e","r">>

\* a || b on strings
OrElse(a, b) == IF a = <<>> THEN b ELSE a

\* the value of the Authorization header, `Bearer ${token}`
Bearer(tok) == <<"Bearer", tok>>
NoHeader == <<>>

Error(type, label, status, text) ==
    [type |-> type, label |-> label, status |-> status, text |-> text]

NoRequest == [by |-> "none", method |-> "", base |-> "", path |-> "", params |-> <<>>, auth |-> <<>>]

\* the three ways a call leaves its synchronous part or its continuation:
\* it throws, it returns, or it is suspended on a fetch it has issued
Throw(err) == [kind |-> "throw", error |-> err, headers |-> NoHeader, request |-> NoRequest]
Return(h) == [kind |-> "ok", error |-> Error("none", "", 0, <<>>), headers |-> h, request |-> NoRequest]
Fetch(req) == [kind |-> "fetch", error |-> Error("none", "", 0, <<>>), headers |-> NoHeader, request |-> req]

ConfigError == Error("config", "API-Basis-URL ist nicht konfiguriert (VITE_API_BASE_URL).", 0, <<>>)
AuthRequiredError == Error("auth", "Kein Token gefunden. Bitte erneut einloggen.", 0, <<>>)
NetworkError == Error("network", "Failed to fetch", 0, <<>>)
DecodeError == Error("decode", "Unexpected token in JSON", 0, <<>>)
NoError == Error("none", "", 0, <<>>)

Request(by, method, base, path, params, auth) ==
    [by |-> by, method |-> method, base |-> base, path |-> path,
     params |-> params, auth |-> auth]

\* the handler step that ran: whose, which handler, its synchronous part ("call") or
\* the continuation after its fetch ("settle"), the response status, its argument
EventOn(who, op, phase, status, arg) ==
    [who |-> who, op |-> op, phase |-> phase, status |-> status, arg |-> arg]
Event(who, op, phase, status) == EventOn(who, op, phase, status, "")
NoEvent == Event("none", "none", "none", 0)

-----------------------------------------------------------------------------
(* API client, api.ts *)

\* faulty variant: the mandatory helper behaves like the optional one
getAuthHeaders_optional(tok) ==
    IF Falsy(tok) THEN Return(NoHeader) ELSE Return(Bearer(tok))

getAuthHeaders(tok) ==
    IF Falsy(tok) THEN Throw(AuthRequiredError) ELSE Return(Bearer(tok))

\* faulty variant: the optional helper never attaches the credential
getOptionalAuthHeaders_never(tok) == Return(NoHeader)

getOptionalAuthHeaders(tok) ==
    IF Falsy(tok) THEN Return(NoHeader) ELSE Return(Bearer(tok))

\* the continuation of every API function after its fetch: a rejected fetch
\* propagates, a non-2xx response throws the function's error, res.json() may reject
Settle(res, err, decodes) ==
    IF res.net = "fail" THEN Throw(NetworkError)
    ELSE IF ~Ok(res) THEN Throw(err)
    ELSE IF decodes /\ res.json = "malformed" THEN Throw(DecodeError)
    ELSE Return(NoHeader)

getMe(base, tok) ==
    IF Falsy(base) THEN Throw(ConfigError)
    ELSE LET headers == getAuthHeaders(tok) IN
         IF headers.kind = "throw" THEN headers
         ELSE Fetch(Request("api", "GET", base, "/auth/me", <<>>, headers.headers))

getMeThen(res) ==
    Settle(res, Error("api", "auth/me error", res.status,
                      OrElse(Slice(res.body, SliceShort), UnknownErrorText)), TRUE)

getAvailableBoxes(base, tok, startInMinutes, durationMinutes) ==
    IF Falsy(base) THEN Throw(ConfigError)
    ELSE LET headers == getOptionalAuthHeaders(tok) IN
         IF headers.kind = "throw" THEN headers
         ELSE Fetch(Request("api", "GET", base, "/boxes/available",
                            <<ToString(startInMinutes), ToString(durationMinutes)>>,
                            headers.headers))

getAvailableBoxesThen(res) ==
    Settle(res, Error("api", "API error", res.status,
                      OrElse(Slice(res.body, SliceShort), UnknownErrorText)), TRUE)

createMyBooking(base, tok, boxId, durationMinutes, userName) ==
    IF Falsy(base) THEN Throw(ConfigError)
    ELSE LET headers == getAuthHeaders(tok) IN
         IF headers.kind = "throw" THEN headers
         ELSE Fetch(Request("api", "POST", base, "/bookings/me",
                            <<IF userName = NULL THEN "Webkunde" ELSE userName, boxId,
                              ToString(durationMinutes)>>,
                            headers.headers))

createMyBookingThen(res) ==
    Settle(res, Error("api", "Booking API error", res.status, Slice(res.body, SliceLong)), TRUE)

listBookingsAdmin(base, tok) ==
    IF Falsy(base) THEN Throw(ConfigError)
    ELSE LET headers == getAuthHeaders(tok) IN
         IF headers.kind = "throw" THEN headers
         ELSE Fetch(Request("api", "GET", base, "/bookings/", <<>>, headers.headers))

listBookingsAdminThen(res) ==
    Settle(res, Error("api", "Admin bookings error", res.status, res.body), TRUE)

createBookingAdmin(base, tok, userEmail, boxId, durationMinutes, userName) ==
    IF Falsy(base) THEN Throw(ConfigError)
    ELSE LET headers == getAuthHeaders(tok) IN
         IF headers.kind = "throw" THEN headers
         ELSE Fetch(Request("api", "POST", base, "/bookings/",
                            <<userEmail, boxId, ToString(durationMinutes)>>
                              \o (IF userName = NULL THEN <<>> ELSE <<userName>>),
                            headers.headers))

createBookingAdminThen(res) ==
    Settle(res, Error("api", "Admin create booking error", res.status, res.body), TRUE)

cancelBookingAdmin(base, tok, bookingId) ==
    IF Falsy(base) THEN Throw(ConfigError)
    ELSE LET headers == getAuthHeaders(tok) IN
         IF headers.kind = "throw" THEN headers
         ELSE Fetch(Request("api", "DELETE", base, "/bookings/" \o bookingId, <<>>,
                            headers.headers))

cancelBookingAdminThen(res) ==
    Settle(res, Error("api", "Booking cancel error", res.status, res.body), FALSE)

-----------------------------------------------------------------------------
(* A caller of the API client: one outstanding call at a time *)

BoxIds == {"BOX-01", "BOX-02"}
BookingIds == {"B1", "B2", "B3"}
Emails == {"kunde@example.org"}
UserNames == {NULL, "Anna"}
StartOffsets == {0}
Durations == {60, 1440}

ApiIdle == [st |-> "idle", op |-> "none", result |-> Return(NoHeader)]

\* the synchronous part of an API function: it throws locally or issues its fetch
ApiCall(op, outcome) ==
    /\ api.st # "awaiting"
    /\ api' = [st |-> IF outcome.kind = "fetch" THEN "awaiting" ELSE "settled",
               op |-> op, result |-> outcome]
    /\ sent' = IF outcome.kind = "fetch" THEN {outcome.request} ELSE {}
    /\ ev' = Event("api", op, "call", 0)
    /\ UNCHANGED <<apiBaseUrl, token, bp, lm, shell, ap, page, dash, mb, ab, panel, bl>>

CallGetMe == ApiCall("getMe", getMe(apiBaseUrl, token))

CallGetAvailableBoxes ==
    \E s \in StartOffsets, d \in Durations :
        ApiCall("getAvailableBoxes", getAvailableBoxes(apiBaseUrl, token, s, d))

CallCreateMyBooking ==
    \E b \in BoxIds, d \in Durations, u \in UserNames :
        ApiCall("createMyBooking", createMyBooking(apiBaseUrl, token, b, d, u))

CallListBookingsAdmin == ApiCall("listBookingsAdmin", listBookingsAdmin(apiBaseUrl, token))

CallCreateBookingAdmin ==
    \E e \in Emails, b \in BoxIds, d \in Durations, u \in UserNames :
        ApiCall("createBookingAdmin", createBookingAdmin(apiBaseUrl, token, e, b, d, u))

CallCancelBookingAdmin ==
    \E id \in BookingIds :
        ApiCall("cancelBookingAdmin", cancelBookingAdmin(apiBaseUrl, token, id))

ApiThen(op, res) ==
    CASE op = "getMe" -> getMeThen(res)
      [] op = "getAvailableBoxes" -> getAvailableBoxesThen(res)
      [] op = "createMyBooking" -> createMyBookingThen(res)
      [] op = "listBookingsAdmin" -> listBookingsAdminThen(res)
      [] op = "createBookingAdmin" -> createBookingAdminThen(res)
      [] op = "cancelBookingAdmin" -> cancelBookingAdminThen(res)

\* the fetch of the outstanding call settles and the function's continuation runs
ApiSettle ==
    /\ api.st = "awaiting"
    /\ \E res \in Responses :
        /\ api' = [st |-> "settled", op |-> api.op, result |-> ApiThen(api.op, res)]
        /\ ev' = Event("api", api.op, "settle", res.status)
    /\ sent' = {}
    /\ UNCHANGED <<apiBaseUrl, token, bp, lm, shell, ap, page, dash, mb, ab, panel, bl>>

-----------------------------------------------------------------------------
(* BookingPage, pages/BookingPage.tsx *)

\* `${API_BASE_URL}` in a template literal: an unset base reads "undefined"
TemplateBase(base) == IF base = NULL THEN "undefined" ELSE base

DurationDays == {0, 1, 2}

\* responses the pages see: bodies shorter and longer than the pages' slice
PageResponses == {r \in Responses : Len(r.body) \in {0, SliceShort + 1}}

BPInit ==
    [mounted |-> FALSE, boxId |-> NULL, box |-> NULL, isLoadingBox |-> FALSE,
     boxError |-> NoError, durationDays |-> 1, isSubmitting |-> FALSE,
     submitError |-> NoError, successBooking |-> NULL]

\* err.message of what a page's try block caught after its fetch
PageCaught(res, label) ==
    IF res.net = "fail" THEN NetworkError
    ELSE IF ~Ok(res) THEN Error("api", label, res.status, Slice(res.body, SliceShort))
    ELSE IF res.json = "malformed" THEN DecodeError
    ELSE NoError

\* the route renders the page; the effect runs loadBox for the route's boxId
BPMount ==
    /\ ~bp.mounted
    /\ \E id \in {NULL} \cup BoxIds :
        IF Falsy(id)
        THEN /\ bp' = [BPInit EXCEPT !.mounted = TRUE, !.boxId = id,
                          !.boxError = Error("local", "Keine Box-ID angegeben.", 0, <<>>)]
             /\ sent' = {}
        ELSE /\ bp' = [BPInit EXCEPT !.mounted = TRUE, !.boxId = id,
                          !.isLoadingBox = TRUE, !.boxError = NoError]
             /\ sent' = {Request("BookingPage", "GET", TemplateBase(apiBaseUrl),
                                 "/boxes/" \o id, <<>>, NoHeader)}
    /\ ev' = Event("BookingPage", "loadBox", "call", 0)
    /\ UNCHANGED <<apiBaseUrl, token, api, lm, shell, ap, page, dash, mb, ab, panel, bl>>

BPLoadBoxSettle ==
    /\ bp.isLoadingBox
    /\ \E res \in PageResponses, data \in BoxIds :
        LET caught == PageCaught(res, "Fehler beim Laden der Box") IN
        /\ bp' = [bp EXCEPT !.box = IF caught = NoError THEN data ELSE @,
                            !.boxError = caught,
                            !.isLoadingBox = FALSE]
        /\ ev' = Event("BookingPage", "loadBox", "settle", res.status)
    /\ sent' = {}
    /\ UNCHANGED <<apiBaseUrl, token, api, lm, shell, ap, page, dash, mb, ab, panel, bl>>

\* the booking form is rendered only once the box is loaded without error
BPFormShown ==
    bp.mounted /\ ~bp.isLoadingBox /\ bp.boxError = NoError /\ bp.box # NULL

BPSetDurationDays ==
    /\ BPFormShown
    /\ \E d \in DurationDays \ {bp.durationDays} : bp' = [bp EXCEPT !.durationDays = d]
    /\ sent' = {}
    /\ ev' = Event("BookingPage", "setDurationDays", "call", 0)
    /\ UNCHANGED <<apiBaseUrl, token, api, lm, shell, ap, page, dash, mb, ab, panel, bl>>

BPHandleSubmit ==
    /\ BPFormShown
    /\ ~bp.isSubmitting
    /\ LET cleared == [bp EXCEPT !.submitError = NoError, !.successBooking = NULL]
           local(msg) == [cleared EXCEPT !.submitError = Error("local", msg, 0, <<>>)]
       IN
       IF Falsy(token)
       THEN bp' = local("Bitte melde dich zuerst an.") /\ sent' = {}
       ELSE IF Falsy(bp.boxId)
       THEN bp' = local("Es wurde keine Box-ID übergeben.") /\ sent' = {}
       ELSE IF bp.durationDays <= 0
       THEN bp' = local("Bitte eine Dauer von mindestens 1 Tag wählen.") /\ sent' = {}
       ELSE /\ bp' = [cleared EXCEPT !.isSubmitting = TRUE]
            /\ sent' = {Request("BookingPage", "POST", TemplateBase(apiBaseUrl),
                                "/bookings/me",
                                <<"Webkunde", bp.boxId, ToString(bp.durationDays * 24 * 60)>>,
                                Bearer(token))}
    /\ ev' = Event("BookingPage", "handleSubmit", "call", 0)
    /\ UNCHANGED <<apiBaseUrl, token, api, lm, shell, ap, page, dash, mb, ab, panel, bl>>

BPHandleSubmitSettle ==
    /\ bp.isSubmitting
    /\ \E res \in PageResponses, data \in BookingIds :
        LET caught == PageCaught(res, "Fehler beim Anlegen der Buchung") IN
        /\ bp' = [bp EXCEPT !.successBooking = IF caught = NoError THEN data ELSE @,
                            !.submitError = caught,
                            !.isSubmitting = FALSE]
        /\ ev' = Event("BookingPage", "handleSubmit", "settle", res.status)
    /\ sent' = {}
    /\ UNCHANGED <<apiBaseUrl, token, api, lm, shell, ap, page, dash, mb, ab, panel, bl>>


-----------------------------------------------------------------------------
(* AppShell, App.tsx *)

TypedEmails == {"kunde@example.org"}
BackendEmails == {"admin@example.org"}

ShellInit == [authUser |-> NULL, isLoginOpen |-> FALSE]

isLoggedIn == shell.authUser # NULL \/ ~Falsy(token)

\* LandingPage offers "Registrieren / Einloggen" while not logged in
OpenLogin ==
    /\ ~isLoggedIn
    /\ ~shell.isLoginOpen
    /\ shell' = [shell EXCEPT !.isLoginOpen = TRUE]
    /\ sent' = {}
    /\ ev' = Event("AppShell", "onOpenLogin", "call", 0)
    /\ UNCHANGED <<apiBaseUrl, token, api, bp, lm, ap, page, dash, mb, ab, panel, bl>>

\* the modal's "Abbrechen" button
CloseLogin ==
    /\ shell.isLoginOpen
    /\ shell' = [shell EXCEPT !.isLoginOpen = FALSE]
    /\ sent' = {}
    /\ ev' = Event("AppShell", "onClose", "call", 0)
    /\ UNCHANGED <<apiBaseUrl, token, api, bp, lm, ap, page, dash, mb, ab, panel, bl>>

\* LandingPage offers "Logout" while logged in. setAuthUser(null) re-renders the
\* shell and the components under it only if authUser was set: a mounted
\* MyBookings then reads the token anew, otherwise it keeps the one it has read
handleLogout ==
    /\ isLoggedIn
    /\ token' = NULL
    /\ shell' = [shell EXCEPT !.authUser = NULL]
    /\ mb' = IF page = "mybookings" /\ shell.authUser # NULL
             THEN [mb EXCEPT !.token = NULL] ELSE mb
    /\ sent' = {}
    /\ ev' = Event("AppShell", "logout", "call", 0)
    /\ UNCHANGED <<apiBaseUrl, api, bp, lm, ap, page, dash, ab, panel, bl>>

handleLoginSuccess(email) == [authUser |-> email, isLoginOpen |-> FALSE]

-----------------------------------------------------------------------------
(* LoginModal, components/LoginModal.tsx *)

LMInit ==
    [pc |-> "idle", email |-> "", loginError |-> NoError, loginMessage |-> NULL,
     isLoggingIn |-> FALSE, heldToken |-> NULL, timer |-> FALSE]

\* data.access_token of a decoded login response
AccessTokens == {NULL, ""} \cup Tokens

LMHandleSubmit ==
    /\ shell.isLoginOpen
    /\ ~lm.isLoggingIn
    /\ \E email \in TypedEmails :
        IF Falsy(apiBaseUrl)
        THEN /\ lm' = [lm EXCEPT !.email = email, !.loginMessage = NULL,
                          !.loginError = Error("config", "API-Basis-URL ist nicht gesetzt.", 0, <<>>),
                          !.isLoggingIn = FALSE]
             /\ sent' = {}
        ELSE /\ lm' = [lm EXCEPT !.email = email, !.loginMessage = NULL,
                          !.loginError = NoError, !.isLoggingIn = TRUE, !.pc = "login"]
             /\ sent' = {Request("LoginModal", "POST", apiBaseUrl, "/auth/login",
                                 <<email, "password">>, NoHeader)}
    /\ ev' = Event("LoginModal", "login", "call", 0)
    /\ UNCHANGED <<apiBaseUrl, token, api, bp, shell, ap, page, dash, mb, ab, panel, bl>>

\* what the try block has caught once the login response is decoded
LoginCaught(res, access) ==
    LET caught == PageCaught(res, "Login fehlgeschlagen") IN
    IF caught # NoError THEN caught
    ELSE IF Falsy(access)
    THEN Error("local", "Login erfolgreich, aber kein Token erhalten.", 0, <<>>)
    ELSE NoError

\* faulty variant: the token is stored as soon as the response is 2xx
LoginStoresToken_unchecked(res, access) == res.net = "ok" /\ Ok(res)

\* localStorage.setItem is reached
LoginStoresToken(res, access) == LoginCaught(res, access) = NoError

LMLoginSettle ==
    /\ lm.pc = "login"
    /\ \E res \in PageResponses, access \in AccessTokens :
        LET caught == LoginCaught(res, access) IN
        /\ token' = IF LoginStoresToken(res, access) THEN access ELSE token
        /\ IF caught # NoError
           THEN /\ lm' = [lm EXCEPT !.loginError = caught, !.isLoggingIn = FALSE,
                                    !.pc = "idle"]
                /\ sent' = {}
           ELSE /\ lm' = [lm EXCEPT !.heldToken = access, !.pc = "me"]
                /\ sent' = {Request("LoginModal", "GET", apiBaseUrl, "/auth/me", <<>>,
                                    Bearer(access))}
        /\ ev' = Event("LoginModal", "login", "settle", res.status)
    /\ UNCHANGED <<apiBaseUrl, api, bp, shell, ap, page, dash, mb, ab, panel, bl>>

\* /auth/me settles; whatever it brings, the login is reported to the shell
LMMeSettle ==
    /\ lm.pc = "me"
    /\ \E res \in PageResponses, meEmail \in {NULL} \cup BackendEmails :
        LET backendEmail ==
                IF res.net = "ok" /\ Ok(res) /\ res.json = "valid" /\ ~Falsy(meEmail)
                THEN meEmail ELSE lm.email
        IN
        /\ lm' = [lm EXCEPT !.loginMessage = "Login erfolgreich.", !.timer = TRUE,
                            !.isLoggingIn = FALSE, !.pc = "idle"]
        /\ shell' = handleLoginSuccess(backendEmail)
        /\ ev' = Event("LoginModal", "me", "settle", res.status)
    /\ sent' = {}
    /\ UNCHANGED <<apiBaseUrl, token, api, bp, ap, page, dash, mb, ab, panel, bl>>

\* the 600 ms timer set after a successful login
LMTimer ==
    /\ lm.timer
    /\ lm' = [lm EXCEPT !.loginMessage = NULL, !.timer = FALSE]
    /\ shell' = [shell EXCEPT !.isLoginOpen = FALSE]
    /\ sent' = {}
    /\ ev' = Event("LoginModal", "timer", "call", 0)
    /\ UNCHANGED <<apiBaseUrl, token, api, bp, ap, page, dash, mb, ab, panel, bl>>

-----------------------------------------------------------------------------
(* AdminPage, pages/AdminPage.tsx *)

APInit ==
    [mounted |-> FALSE, authUser |-> NULL, is_admin |-> FALSE, loading |-> TRUE,
     fetching |-> FALSE, heldToken |-> NULL]

\* data of a decoded /auth/me response
MeData == [email : BackendEmails, is_admin : BOOLEAN]

\* the admin route renders the page; the effect runs fetchMe.
\* navigate("/") leaves the route, which unmounts the page
APMount ==
    /\ ~ap.mounted
    /\ ~ap.fetching
    /\ IF Falsy(token)
       THEN /\ ap' = [APInit EXCEPT !.mounted = FALSE]
            /\ sent' = {}
       ELSE /\ ap' = [APInit EXCEPT !.mounted = TRUE, !.fetching = TRUE,
                                    !.heldToken = token]
            /\ sent' = {Request("AdminPage", "GET", LocalBase, "/auth/me", <<>>,
                                Bearer(token))}
    /\ ev' = Event("AdminPage", "fetchMe", "call", 0)
    /\ UNCHANGED <<apiBaseUrl, token, api, bp, lm, shell, page, dash, mb, ab, panel, bl>>

\* faulty variant: any decoded 2xx answer admits the user
fetchMeBranch_anyUser(res, data) ==
    IF res.net = "fail" \/ (Ok(res) /\ res.json = "malformed") THEN "caught"
    ELSE IF ~Ok(res) THEN "notOk"
    ELSE "admin"

\* the branch fetchMe takes once /auth/me has settled
fetchMeBranch(res, data) ==
    IF res.net = "fail" \/ (Ok(res) /\ res.json = "malformed") THEN "caught"
    ELSE IF ~Ok(res) THEN "notOk"
    ELSE IF ~data.is_admin THEN "notAdmin"
    ELSE "admin"

APFetchMeSettle ==
    /\ ap.fetching
    /\ \E res \in PageResponses, data \in MeData :
        LET branch == fetchMeBranch(res, data) IN
        /\ IF branch = "caught"
           THEN /\ ap' = [ap EXCEPT !.mounted = FALSE, !.loading = FALSE, !.fetching = FALSE]
                /\ token' = token
           ELSE IF branch = "notOk"
           THEN /\ ap' = [ap EXCEPT !.mounted = FALSE, !.loading = FALSE, !.fetching = FALSE]
                /\ token' = NULL
           ELSE IF branch = "notAdmin"
           THEN /\ ap' = [ap EXCEPT !.mounted = FALSE, !.loading = FALSE, !.fetching = FALSE]
                /\ token' = token
           ELSE /\ ap' = [ap EXCEPT !.authUser = data.email, !.is_admin = data.is_admin,
                                    !.loading = FALSE, !.fetching = FALSE]
                /\ token' = token
        /\ ev' = Event("AdminPage", "fetchMe", "settle", res.status)
    /\ sent' = {}
    /\ UNCHANGED <<apiBaseUrl, api, bp, lm, shell, page, dash, mb, ab, panel, bl>>

\* the render shows the loading placeholder
AdminLoadingShown == ap.mounted /\ ap.loading

\* the render shows the admin header and the AdminPanel
AdminPanelShown == ap.mounted /\ ~ap.loading /\ ap.authUser # NULL

\* the header's Logout button, rendered once the admin is confirmed
APLogout ==
    /\ AdminPanelShown
    /\ token' = NULL
    /\ ap' = [ap EXCEPT !.mounted = FALSE]
    /\ sent' = {}
    /\ ev' = Event("AdminPage", "logout", "call", 0)
    /\ UNCHANGED <<apiBaseUrl, api, bp, lm, shell, page, dash, mb, ab, panel, bl>>


\* the user leaves the admin route while the page is mounted; the effect of the page
\* returns no cleanup, so an outstanding fetchMe goes on
APUnmount ==
    /\ ap.mounted
    /\ ap' = [ap EXCEPT !.mounted = FALSE]
    /\ sent' = {}
    /\ ev' = Event("AdminPage", "unmount", "call", 0)
    /\ UNCHANGED <<apiBaseUrl, token, api, bp, lm, shell, page, dash, mb, ab, panel, bl>>

-----------------------------------------------------------------------------
(* Bookings and boxes the backend serves *)

\* most entries of a list the backend returns
MaxListLen == 2

\* most requests one page has outstanding
MaxInFlight == 2

\* B1 and B3 are created at the same instant
Bookings ==
    {[id |-> "B1", created_at |-> 2], [id |-> "B2", created_at |-> 1],
     [id |-> "B3", created_at |-> 2]}

\* the lists of bookings a response may decode to
BookingLists ==
    UNION {{s \in [1..n -> Bookings] : \A i, j \in 1..n : i # j => s[i].id # s[j].id}
           : n \in 0..MaxListLen}

BoxLists == {<<>>, <<"BOX-01">>}

\* the responses whose error body has one character
ShortResponses == {r \in Responses : r.net = "fail" \/ Ok(r) \/ Len(r.body) = 1}

\* what a list request is answered with: a list, an expired session, no answer
ListResponses == {r \in ShortResponses : r.net = "fail" \/ r.status \in {200, 401}}

\* prev.filter((b) => b.id !== bookingId)
FilterOutId(list, bookingId) == SelectSeq(list, LAMBDA b : b.id # bookingId)

RECURSIVE SortByCreatedDesc(_)
\* [...data].sort((a, b) => created(b) - created(a)); Array.prototype.sort is stable
SortByCreatedDesc(list) ==
    IF list = <<>> THEN <<>>
    ELSE LET n == Len(list)
             x == list[n]
             head == SortByCreatedDesc(SubSeq(list, 1, n - 1))
             keep == SelectSeq(head, LAMBDA b : b.created_at >= x.created_at)
             rest == SelectSeq(head, LAMBDA b : b.created_at < x.created_at)
         IN keep \o <<x>> \o rest

NoneInFlight == [id \in BookingIds |-> 0]

RECURSIVE SumOver(_, _)
SumOver(f, ids) ==
    IF ids = {} THEN 0
    ELSE LET id == CHOOSE x \in ids : TRUE IN f[id] + SumOver(f, ids \ {id})

SentBy(outcome) == IF outcome.kind = "fetch" THEN {outcome.request} ELSE {}


-----------------------------------------------------------------------------
(* AdminDashboardPage, pages/AdminDashboardPage.tsx *)

\* 60 * 60 * 1000 milliseconds
ONE_HOUR_MS == 60 * 60 * 1000

\* the instants Date.now() returns to a render, in milliseconds
Instants == {10000000, 10000000 + 1000, 10000000 + 1000 + ONE_HOUR_MS}

FirstInstant == CHOOSE n \in Instants : \A m \in Instants : n <= m

DashInit ==
    [bookings |-> <<>>, isLoadingBookings |-> FALSE, bookingsError |-> NoError,
     availableBoxes |-> <<>>, isLoadingBoxes |-> FALSE, boxesError |-> NoError,
     autoRefresh |-> FALSE, isCancellingId |-> NULL, alert |-> NoError,
     loads |-> 0, boxLoads |-> 0, cancels |-> NoneInFlight,
     searchTerm |-> <<>>, statusFilter |-> "all",
     sortKey |-> "created_at", sortDir |-> "desc", now |-> FirstInstant,
     newEmail |-> "", newUserName |-> "", newBoxId |-> "", newDurationDays |-> 1,
     isCreating |-> FALSE, createError |-> NoError, createSuccess |-> NULL, creates |-> 0]

DashInFlight(d) == d.loads + d.boxLoads + SumOver(d.cancels, BookingIds)

\* loadBookings up to its await
loadBookings(d, outcome) ==
    IF outcome.kind = "throw"
    THEN [d EXCEPT !.bookingsError = outcome.error, !.isLoadingBookings = FALSE]
    ELSE [d EXCEPT !.isLoadingBookings = TRUE, !.bookingsError = NoError, !.loads = @ + 1]

\* loadAvailableBoxes up to its await
loadAvailableBoxes(d, outcome) ==
    IF outcome.kind = "throw"
    THEN [d EXCEPT !.boxesError = outcome.error, !.isLoadingBoxes = FALSE]
    ELSE [d EXCEPT !.isLoadingBoxes = TRUE, !.boxesError = NoError, !.boxLoads = @ + 1]

\* the two calls of the mount effect and of the auto-refresh interval
DashLoadBoth(d, who, op) ==
    LET list == listBookingsAdmin(apiBaseUrl, token)
        boxes == getAvailableBoxes(apiBaseUrl, token, 0, 60)
    IN
    /\ dash' = loadAvailableBoxes(loadBookings(d, list), boxes)
    /\ sent' = SentBy(list) \cup SentBy(boxes)
    /\ ev' = Event(who, op, "call", 0)

DashMount ==
    /\ page = "none"
    /\ page' = "dashboard"
    /\ DashLoadBoth(DashInit, "AdminDashboardPage", "mount")
    /\ UNCHANGED <<apiBaseUrl, token, api, bp, lm, shell, ap, mb, ab, panel, bl>>

\* the "Neu laden" button of the bookings table
DashReloadBookings ==
    /\ page = "dashboard"
    /\ DashInFlight(dash) < MaxInFlight
    /\ LET list == listBookingsAdmin(apiBaseUrl, token) IN
        /\ dash' = loadBookings(dash, list)
        /\ sent' = SentBy(list)
    /\ ev' = Event("AdminDashboardPage", "loadBookings", "call", 0)
    /\ UNCHANGED <<apiBaseUrl, token, api, bp, lm, shell, ap, page, mb, ab, panel, bl>>

\* the reload button of the available boxes
DashReloadBoxes ==
    /\ page = "dashboard"
    /\ DashInFlight(dash) < MaxInFlight
    /\ LET boxes == getAvailableBoxes(apiBaseUrl, token, 0, 60) IN
        /\ dash' = loadAvailableBoxes(dash, boxes)
        /\ sent' = SentBy(boxes)
    /\ ev' = Event("AdminDashboardPage", "loadAvailableBoxes", "call", 0)
    /\ UNCHANGED <<apiBaseUrl, token, api, bp, lm, shell, ap, page, mb, ab, panel, bl>>

DashSetAutoRefresh ==
    /\ page = "dashboard"
    /\ dash' = [dash EXCEPT !.autoRefresh = ~@]
    /\ sent' = {}
    /\ ev' = Event("AdminDashboardPage", "setAutoRefresh", "call", 0)
    /\ UNCHANGED <<apiBaseUrl, token, api, bp, lm, shell, ap, page, mb, ab, panel, bl>>

\* the 30 s interval fires
DashAutoRefresh ==
    /\ page = "dashboard"
    /\ dash.autoRefresh
    /\ DashInFlight(dash) + 2 <= MaxInFlight
    /\ DashLoadBoth(dash, "AdminDashboardPage", "autoRefresh")
    /\ UNCHANGED <<apiBaseUrl, token, api, bp, lm, shell, ap, page, mb, ab, panel, bl>>

DashLoadBookingsSettle ==
    /\ dash.loads > 0
    /\ \E res \in ListResponses, data \in BookingLists :
        LET outcome == listBookingsAdminThen(res) IN
        /\ dash' = [dash EXCEPT
                      !.bookings = IF outcome.kind = "ok" THEN SortByCreatedDesc(data) ELSE @,
                      !.bookingsError = IF outcome.kind = "ok" THEN @ ELSE outcome.error,
                      !.isLoadingBookings = FALSE,
                      !.loads = @ - 1]
        /\ ev' = Event("AdminDashboardPage", "loadBookings", "settle", res.status)
    /\ sent' = {}
    /\ UNCHANGED <<apiBaseUrl, token, api, bp, lm, shell, ap, page, mb, ab, panel, bl>>

DashLoadBoxesSettle ==
    /\ dash.boxLoads > 0
    /\ \E res \in ListResponses, data \in BoxLists :
        LET outcome == getAvailableBoxesThen(res) IN
        /\ dash' = [dash EXCEPT
                      !.availableBoxes = IF outcome.kind = "ok" THEN data ELSE @,
                      !.boxesError = IF outcome.kind = "ok" THEN @ ELSE outcome.error,
                      !.isLoadingBoxes = FALSE,
                      !.boxLoads = @ - 1]
        /\ ev' = Event("AdminDashboardPage", "loadAvailableBoxes", "settle", res.status)
    /\ sent' = {}
    /\ UNCHANGED <<apiBaseUrl, token, api, bp, lm, shell, ap, page, mb, ab, panel, bl>>

\* the bookings table with its row buttons is rendered
DashTableShown == page = "dashboard" /\ ~dash.isLoadingBookings /\ dash.bookingsError = NoError

\* handleCancelBooking up to its await (the user has confirmed)
DashHandleCancelBooking ==
    /\ DashTableShown
    /\ DashInFlight(dash) < MaxInFlight
    /\ \E i \in 1..Len(dash.bookings) :
        LET bookingId == dash.bookings[i].id
            outcome == cancelBookingAdmin(apiBaseUrl, token, bookingId)
        IN
        /\ dash.isCancellingId # bookingId
        /\ dash' = IF outcome.kind = "throw"
                   THEN [dash EXCEPT !.alert = outcome.error, !.isCancellingId = NULL]
                   ELSE [dash EXCEPT !.isCancellingId = bookingId,
                                     !.cancels[bookingId] = @ + 1]
        /\ sent' = SentBy(outcome)
        /\ ev' = EventOn("AdminDashboardPage", "cancel", "call", 0, bookingId)
    /\ UNCHANGED <<apiBaseUrl, token, api, bp, lm, shell, ap, page, mb, ab, panel, bl>>

\* faulty variant: the booking is dropped from the list whatever the call returned
DashBookingsAfterCancel_always(prev, bookingId, outcome) == FilterOutId(prev, bookingId)

\* the list after cancelBookingAdmin has settled
DashBookingsAfterCancel(prev, bookingId, outcome) ==
    IF outcome.kind = "ok" THEN FilterOutId(prev, bookingId) ELSE prev

\* handleCancelBooking after its await
DashCancelSettle ==
    \E bookingId \in BookingIds :
        /\ dash.cancels[bookingId] > 0
        /\ \E res \in ShortResponses :
            LET outcome == cancelBookingAdminThen(res)
                boxes == getAvailableBoxes(apiBaseUrl, token, 0, 60)
                d == [dash EXCEPT
                        !.bookings = DashBookingsAfterCancel(@, bookingId, outcome),
                        !.cancels[bookingId] = @ - 1]
            IN
            /\ IF outcome.kind = "ok"
               THEN /\ dash' = [loadAvailableBoxes(d, boxes) EXCEPT !.isCancellingId = NULL]
                    /\ sent' = SentBy(boxes)
               ELSE /\ dash' = [d EXCEPT !.alert = outcome.error, !.isCancellingId = NULL]
                    /\ sent' = {}
            /\ ev' = EventOn("AdminDashboardPage", "cancel", "settle", res.status, bookingId)
        /\ UNCHANGED <<apiBaseUrl, token, api, bp, lm, shell, ap, page, mb, ab, panel, bl>>

\* the dashboard leaves the screen: the cleanup of the auto-refresh effect clears
\* the interval; the requests under way are not cancelled
DashUnmount ==
    /\ page = "dashboard"
    /\ page' = "none"
    /\ sent' = {}
    /\ ev' = Event("AdminDashboardPage", "unmount", "call", 0)
    /\ UNCHANGED <<apiBaseUrl, token, api, bp, lm, shell, ap, dash, mb, ab, panel, bl>>

-----------------------------------------------------------------------------
(* AdminDashboardPage: the form that creates a booking *)

\* what is typed into the fields of the form
TypedDays == {0, 1}

DashSetNewEmail ==
    /\ page = "dashboard"
    /\ \E v \in {""} \cup Emails :
        /\ v # dash.newEmail
        /\ dash' = [dash EXCEPT !.newEmail = v]
    /\ sent' = {}
    /\ ev' = Event("AdminDashboardPage", "setNewEmail", "call", 0)
    /\ UNCHANGED <<apiBaseUrl, token, api, bp, lm, shell, ap, page, mb, ab, panel, bl>>

DashSetNewUserName ==
    /\ page = "dashboard"
    /\ \E v \in {"", "Anna"} :
        /\ v # dash.newUserName
        /\ dash' = [dash EXCEPT !.newUserName = v]
    /\ sent' = {}
    /\ ev' = Event("AdminDashboardPage", "setNewUserName", "call", 0)
    /\ UNCHANGED <<apiBaseUrl, token, api, bp, lm, shell, ap, page, mb, ab, panel, bl>>

DashSetNewBoxId ==
    /\ page = "dashboard"
    /\ \E v \in {"", "BOX-01"} :
        /\ v # dash.newBoxId
        /\ dash' = [dash EXCEPT !.newBoxId = v]
    /\ sent' = {}
    /\ ev' = Event("AdminDashboardPage", "setNewBoxId", "call", 0)
    /\ UNCHANGED <<apiBaseUrl, token, api, bp, lm, shell, ap, page, mb, ab, panel, bl>>

DashSetNewDurationDays ==
    /\ page = "dashboard"
    /\ \E v \in TypedDays :
        /\ v # dash.newDurationDays
        /\ dash' = [dash EXCEPT !.newDurationDays = v]
    /\ sent' = {}
    /\ ev' = Event("AdminDashboardPage", "setNewDurationDays", "call", 0)
    /\ UNCHANGED <<apiBaseUrl, token, api, bp, lm, shell, ap, page, mb, ab, panel, bl>>

\* the validation of handleCreateBooking: the message it sets, or none
CreateValidation(d) ==
    IF Falsy(d.newEmail) \/ Falsy(d.newBoxId)
    THEN Error("local", "Bitte mindestens E-Mail und Box-ID ausfüllen.", 0, <<>>)
    ELSE IF d.newDurationDays <= 0
    THEN Error("local", "Dauer muss mindestens 1 Tag sein.", 0, <<>>)
    ELSE NoError

\* handleCreateBooking up to its await; the submit button is disabled while isCreating
DashHandleCreateBooking ==
    /\ page = "dashboard"
    /\ ~dash.isCreating
    /\ DashInFlight(dash) + dash.creates < MaxInFlight
    /\ LET d == [dash EXCEPT !.createError = NoError, !.createSuccess = NULL]
           invalid == CreateValidation(d)
           outcome == createBookingAdmin(apiBaseUrl, token, d.newEmail, d.newBoxId,
                                         d.newDurationDays * 24 * 60,
                                         IF Falsy(d.newUserName) THEN NULL ELSE d.newUserName)
       IN IF invalid # NoError
          THEN /\ dash' = [d EXCEPT !.createError = invalid]
               /\ sent' = {}
               /\ ev' = EventOn("AdminDashboardPage", "createBooking", "call", 0, "invalid")
          ELSE IF outcome.kind = "throw"
          THEN /\ dash' = [d EXCEPT !.createError = outcome.error, !.isCreating = FALSE]
               /\ sent' = {}
               /\ ev' = EventOn("AdminDashboardPage", "createBooking", "call", 0, "thrown")
          ELSE /\ dash' = [d EXCEPT !.isCreating = TRUE, !.creates = @ + 1]
               /\ sent' = SentBy(outcome)
               /\ ev' = EventOn("AdminDashboardPage", "createBooking", "call", 0, "sent")
    /\ UNCHANGED <<apiBaseUrl, token, api, bp, lm, shell, ap, page, mb, ab, panel, bl>>

\* faulty variant: the booking is put into the list whatever the answer
DashBookingsAfterCreate_always(prev, booking, outcome) == <<booking>> \o prev

\* setBookings((prev) => [booking, ...prev]) after a successful createBookingAdmin
DashBookingsAfterCreate(prev, booking, outcome) ==
    IF outcome.kind = "ok" THEN <<booking>> \o prev ELSE prev

\* handleCreateBooking after its await; the backend answers with a booking under a
\* new id
DashCreateSettle ==
    /\ dash.creates > 0
    /\ \E res \in ShortResponses, booking \in Bookings :
        LET outcome == createBookingAdminThen(res)
            boxes == getAvailableBoxes(apiBaseUrl, token, 0, 60)
            d == [dash EXCEPT
                    !.bookings = DashBookingsAfterCreate(@, booking, outcome),
                    !.creates = @ - 1,
                    !.isCreating = FALSE]
        IN
        /\ \A i \in 1..Len(dash.bookings) : dash.bookings[i].id # booking.id
        /\ IF outcome.kind = "ok"
           THEN /\ dash' = loadAvailableBoxes(
                               [d EXCEPT !.createSuccess = booking.id,
                                         !.newDurationDays = 1], boxes)
                /\ sent' = SentBy(boxes)
           ELSE /\ dash' = [d EXCEPT !.createError = outcome.error]
                /\ sent' = {}
        /\ ev' = EventOn("AdminDashboardPage", "createBooking", "settle", res.status,
                         IF outcome.kind = "ok" THEN booking.id ELSE "failed")
    /\ UNCHANGED <<apiBaseUrl, token, api, bp, lm, shell, ap, page, mb, ab, panel, bl>>

-----------------------------------------------------------------------------
(* AdminDashboardPage: the filtered and sorted view and the KPIs *)

\* most bookings in a list the view is computed from
MaxViewLen == 3

\* a text is a sequence of characters; an absent (undefined or null) text is Missing
Missing == <<"undefined">>

\* an absent price_for_period
NoPrice == -1

\* an empty valid_until
NoDate == 0

\* UTF-16 code unit of a character, the order of < on strings
Code(c) ==
    CASE c = " " -> 32 [] c = "\"" -> 34 [] c = "," -> 44 [] c = "1" -> 49
      [] c = "A" -> 65 [] c = "a" -> 97 [] c = "b" -> 98

\* String.prototype.toLowerCase
toLowerCase(s) == [i \in 1..Len(s) |-> IF s[i] = "A" THEN "a" ELSE s[i]]

RECURSIVE trim(_)
\* String.prototype.trim
trim(s) ==
    IF s = <<>> THEN s
    ELSE IF Head(s) = " " THEN trim(Tail(s))
    ELSE IF s[Len(s)] = " " THEN trim(SubSeq(s, 1, Len(s) - 1))
    ELSE s

\* String.prototype.includes
includes(s, q) == \E i \in 0..(Len(s) - Len(q)) : SubSeq(s, i + 1, i + Len(q)) = q

\* s < t on strings: the first differing code unit decides, a proper prefix is smaller
StringLess(s, t) ==
    \E k \in 1..Len(t) :
        /\ k - 1 <= Len(s)
        /\ SubSeq(s, 1, k - 1) = SubSeq(t, 1, k - 1)
        /\ \/ k = Len(s) + 1
           \/ Code(s[k]) < Code(t[k])

\* String(x)
StringOf(x) ==
    IF x = Missing THEN <<"u", "n", "d", "e", "f", "i", "n", "e", "d">> ELSE x

\* x ?? y
Coalesce(x, y) == IF x = Missing THEN y ELSE x

\* B2 and B3 are created at the same instant; B2 and B4 end at the same instant and
\* cost the same; B1 and B2 have the same e-mail sort value, B2 and B4 the same box
\* sort value. B3 and B4 carry an is_active flag, B1 and B2 none.
AdminBookings ==
    {[id |-> "B1", created_at |-> 3000, valid_until |-> FirstInstant + 1000 + ONE_HOUR_MS,
      is_active |-> "absent", price_for_period |-> 10,
      user_name |-> <<"A", "b">>, user_email |-> Missing,
      box_id |-> <<"b", "1">>, box_name |-> <<"A">>, access_code |-> Missing],
     [id |-> "B2", created_at |-> 2000, valid_until |-> FirstInstant,
      is_active |-> "absent", price_for_period |-> 5,
      user_name |-> <<"b">>, user_email |-> <<"a", "b">>,
      box_id |-> <<"b", "1">>, box_name |-> Missing, access_code |-> <<"1", "A">>],
     [id |-> "B3", created_at |-> 2000, valid_until |-> FirstInstant + 1000,
      is_active |-> "false", price_for_period |-> NoPrice,
      user_name |-> <<"a">>, user_email |-> Missing,
      box_id |-> <<"1">>, box_name |-> <<"b">>, access_code |-> <<"a", "1">>],
     [id |-> "B4", created_at |-> 1000, valid_until |-> FirstInstant,
      is_active |-> "true", price_for_period |-> 5,
      user_name |-> <<"A">>, user_email |-> <<"b">>,
      box_id |-> <<"b">>, box_name |-> <<"1">>, access_code |-> Missing]}

\* the lists GET /admin/bookings may decode to: every valid_until is a timestamp
AdminBookingLists ==
    UNION {{s \in [1..n -> AdminBookings] : \A i, j \in 1..n : i # j => s[i].id # s[j].id}
           : n \in 0..MaxViewLen}

\* what is typed into the search box
SearchTerms == {<<>>, <<" ">>, <<" ", "A">>, <<"b", "1">>, <<"1", "a">>, <<"u">>}

StatusFilters == {"all", "active", "expired"}
SortKeys == {"created_at", "valid_until", "box", "email", "price"}

\* isActive of the render that read the clock as now; valid_until "" is falsy
isActive(b, now) ==
    IF b.valid_until = NoDate THEN FALSE
    ELSE b.valid_until > now

\* faulty variant: the field is compared as it is written
MatchesSearch_exactCase(b, q) ==
    \E field \in {b.user_email, b.user_name, b.box_id, b.box_name, b.access_code} :
        IF field # Missing /\ field # <<>> THEN includes(StringOf(field), q) ELSE FALSE

\* faulty variant: an absent field is converted and searched like any other
MatchesSearch_unguarded(b, q) ==
    \E field \in {b.user_email, b.user_name, b.box_id, b.box_name, b.access_code} :
        includes(toLowerCase(StringOf(field)), q)

\* the callback of the search filter, q the trimmed and lowered search term
MatchesSearch(b, q) ==
    \E field \in {b.user_email, b.user_name, b.box_id, b.box_name, b.access_code} :
        IF field # Missing /\ field # <<>>
        THEN includes(toLowerCase(StringOf(field)), q)
        ELSE FALSE

\* av (or bv) of the sort callback
SortValue(b, sortKey) ==
    CASE sortKey = "created_at" -> b.created_at
      [] sortKey = "valid_until" -> b.valid_until
      [] sortKey = "box" -> Coalesce(b.box_id, <<>>) \o Coalesce(b.box_name, <<>>)
      [] sortKey = "email" -> toLowerCase(Coalesce(b.user_email, Coalesce(b.user_name, <<>>)))
      [] sortKey = "price" -> IF b.price_for_period = NoPrice THEN 0 ELSE b.price_for_period

\* the sort callback: negative when a goes first, positive when b goes first
Compare(a, b, sortKey, sortDir) ==
    LET av == SortValue(a, sortKey)
        bv == SortValue(b, sortKey)
        text == sortKey \in {"box", "email"}
    IN IF (IF text THEN StringLess(av, bv) ELSE av < bv)
       THEN (IF sortDir = "asc" THEN -1 ELSE 1)
       ELSE IF (IF text THEN StringLess(bv, av) ELSE av > bv)
       THEN (IF sortDir = "asc" THEN 1 ELSE -1)
       ELSE 0

RECURSIVE SortView_tiesReversed(_, _, _)
\* faulty variant: an element goes in front of the elements it ties with
SortView_tiesReversed(list, sortKey, sortDir) ==
    IF list = <<>> THEN <<>>
    ELSE LET n == Len(list)
             x == list[n]
             head == SortView_tiesReversed(SubSeq(list, 1, n - 1), sortKey, sortDir)
             keep == SelectSeq(head, LAMBDA y : Compare(y, x, sortKey, sortDir) < 0)
             rest == SelectSeq(head, LAMBDA y : Compare(y, x, sortKey, sortDir) >= 0)
         IN keep \o <<x>> \o rest

RECURSIVE SortView(_, _, _)
\* list.sort(callback): Array.prototype.sort is stable, so each element goes behind
\* the elements the callback does not put after it
SortView(list, sortKey, sortDir) ==
    IF list = <<>> THEN <<>>
    ELSE LET n == Len(list)
             x == list[n]
             head == SortView(SubSeq(list, 1, n - 1), sortKey, sortDir)
             keep == SelectSeq(head, LAMBDA y : Compare(y, x, sortKey, sortDir) <= 0)
             rest == SelectSeq(head, LAMBDA y : Compare(y, x, sortKey, sortDir) > 0)
         IN keep \o <<x>> \o rest

\* faulty variant: "expired" keeps the bookings that ended before now
StatusFiltered_strict(list, statusFilter, now) ==
    IF statusFilter = "active" THEN SelectSeq(list, LAMBDA b : isActive(b, now))
    ELSE IF statusFilter = "expired" THEN SelectSeq(list, LAMBDA b : b.valid_until < now)
    ELSE list

\* the status filter of the view
StatusFiltered(list, statusFilter, now) ==
    IF statusFilter = "active" THEN SelectSeq(list, LAMBDA b : isActive(b, now))
    ELSE IF statusFilter = "expired" THEN SelectSeq(list, LAMBDA b : ~isActive(b, now))
    ELSE list

\* the search filter of the view
SearchFiltered(list, searchTerm) ==
    IF trim(searchTerm) # <<>>
    THEN LET q == toLowerCase(trim(searchTerm))
         IN SelectSeq(list, LAMBDA b : MatchesSearch(b, q))
    ELSE list

\* filteredAndSortedBookings of a render
filteredAndSortedBookings(d) ==
    SortView(SearchFiltered(StatusFiltered(d.bookings, d.statusFilter, d.now), d.searchTerm),
             d.sortKey, d.sortDir)

RECURSIVE SumPrices(_)
\* reduce((sum, b) => sum + (b.price_for_period ?? 0), 0)
SumPrices(list) ==
    IF list = <<>> THEN 0
    ELSE (IF Head(list).price_for_period = NoPrice THEN 0 ELSE Head(list).price_for_period)
         + SumPrices(Tail(list))

\* faulty variant: every priced booking counts
RevenueBookings_all(list, now) ==
    SelectSeq(list, LAMBDA b : b.price_for_period # NoPrice)

\* the bookings revenueActive is summed over
RevenueBookings(list, now) ==
    SelectSeq(list, LAMBDA b : isActive(b, now) /\ b.price_for_period # NoPrice)

\* the body of the stats memo over a list
CountStats(list, now) ==
    LET total == Len(list)
        active == Len(SelectSeq(list, LAMBDA b : isActive(b, now)))
    IN [total |-> total, active |-> active, expired |-> total - active,
        revenueActive |-> SumPrices(RevenueBookings(list, now))]

\* faulty variant: the KPIs of the filtered view
stats_ofView(d) == CountStats(filteredAndSortedBookings(d), d.now)

\* stats of a render
stats(d) == CountStats(d.bookings, d.now)

\* faulty variant: the instant read by an earlier render is kept
RenderAt_cached(d, n) == d

\* the render that follows a state update, at clock reading n: const now = Date.now()
RenderAt(d, n) == [d EXCEPT !.now = n]

\* the clock readings a render after d may see
Later(d) == {n \in Instants : n >= d.now}

\* onChange of the search box
DashSetSearchTerm ==
    /\ page = "dashboard"
    /\ \E q \in SearchTerms \ {dash.searchTerm}, n \in Later(dash) :
        /\ dash' = RenderAt([dash EXCEPT !.searchTerm = q], n)
        /\ ev' = EventOn("AdminDashboardPage", "setSearchTerm", "call", 0, n)
    /\ sent' = {}
    /\ UNCHANGED <<apiBaseUrl, token, api, bp, lm, shell, ap, page, mb, ab, panel, bl>>

\* onChange of the status select
DashSetStatusFilter ==
    /\ page = "dashboard"
    /\ \E f \in StatusFilters \ {dash.statusFilter}, n \in Later(dash) :
        /\ dash' = RenderAt([dash EXCEPT !.statusFilter = f], n)
        /\ ev' = EventOn("AdminDashboardPage", "setStatusFilter", "call", 0, n)
    /\ sent' = {}
    /\ UNCHANGED <<apiBaseUrl, token, api, bp, lm, shell, ap, page, mb, ab, panel, bl>>

toggleSort(d, key) ==
    IF d.sortKey = key
    THEN [d EXCEPT !.sortDir = IF @ = "asc" THEN "desc" ELSE "asc"]
    ELSE [d EXCEPT !.sortKey = key, !.sortDir = "desc"]

\* a click on a column header
DashToggleSort ==
    /\ page = "dashboard"
    /\ \E key \in SortKeys, n \in Later(dash) :
        /\ dash' = RenderAt(toggleSort(dash, key), n)
        /\ ev' = EventOn("AdminDashboardPage", "toggleSort", "call", 0, n)
    /\ sent' = {}
    /\ UNCHANGED <<apiBaseUrl, token, api, bp, lm, shell, ap, page, mb, ab, panel, bl>>

\* a render some other state update of the page causes
DashRender ==
    /\ page = "dashboard"
    /\ \E n \in Later(dash) :
        /\ dash' = RenderAt(dash, n)
        /\ ev' = EventOn("AdminDashboardPage", "render", "call", 0, n)
    /\ sent' = {}
    /\ UNCHANGED <<apiBaseUrl, token, api, bp, lm, shell, ap, page, mb, ab, panel, bl>>

-----------------------------------------------------------------------------
(* AdminDashboardPage: the CSV export *)

\* an absent billed_units
NoUnits == -1

\* bookings whose texts hold commas and double quotes: E1 has a comma in user_name,
\* E2 a comma next to a double quote, E3 a double quote and no comma, E4 neither.
\* The text of an id, a number or a timestamp is one character of the model.
ExportBookings ==
    {[id |-> "B1", created_at |-> 4000, valid_until |-> FirstInstant + 1000 + ONE_HOUR_MS,
      is_active |-> "absent", price_for_period |-> 10, unit_label |-> <<"a">>,
      billed_units |-> 2,
      user_name |-> <<"a", ",", "b">>, user_email |-> Missing,
      box_id |-> <<"b", "1">>, box_name |-> Missing, access_code |-> Missing],
     [id |-> "B2", created_at |-> 3000, valid_until |-> FirstInstant,
      is_active |-> "absent", price_for_period |-> NoPrice, unit_label |-> Missing,
      billed_units |-> NoUnits,
      user_name |-> <<"\"", "a", "\"", ",">>, user_email |-> <<"a">>,
      box_id |-> <<"b", "1">>, box_name |-> <<"A">>, access_code |-> <<"1", ",", "1">>],
     [id |-> "B3", created_at |-> 2000, valid_until |-> FirstInstant + 1000,
      is_active |-> "absent", price_for_period |-> 5, unit_label |-> <<"b">>,
      billed_units |-> 1,
      user_name |-> <<"\"", "b">>, user_email |-> Missing,
      box_id |-> <<"1">>, box_name |-> Missing, access_code |-> <<"a", "1">>],
     [id |-> "B4", created_at |-> 1000, valid_until |-> FirstInstant,
      is_active |-> "absent", price_for_period |-> 5, unit_label |-> Missing,
      billed_units |-> NoUnits,
      user_name |-> <<"A">>, user_email |-> <<"b">>,
      box_id |-> <<"b">>, box_name |-> <<"1">>, access_code |-> Missing]}

ExportBookingLists ==
    UNION {{s \in [1..n -> ExportBookings] : \A i, j \in 1..n : i # j => s[i].id # s[j].id}
           : n \in 0..MaxViewLen}

RECURSIVE Join(_, _)
\* Array.prototype.join of texts
Join(texts, sep) ==
    IF texts = <<>> THEN <<>>
    ELSE IF Len(texts) = 1 THEN texts[1]
    ELSE texts[1] \o sep \o Join(Tail(texts), sep)

\* header.join(",")
CsvHeader ==
    Join(<<<<"id">>, <<"user_email">>, <<"user_name">>, <<"box_id">>, <<"access_code">>,
           <<"created_at">>, <<"valid_until">>, <<"price_for_period">>, <<"unit_label">>,
           <<"billed_units">>, <<"status">>>>, <<",">>)

\* the values of a row before quoting, each as String(value ?? "") writes it
CsvValues(b, now) ==
    <<<<b.id>>,
      Coalesce(b.user_email, <<>>),
      Coalesce(b.user_name, <<>>),
      Coalesce(b.box_id, <<>>),
      Coalesce(b.access_code, <<>>),
      <<ToString(b.created_at)>>,
      <<ToString(b.valid_until)>>,
      IF b.price_for_period = NoPrice THEN <<>> ELSE <<ToString(b.price_for_period)>>,
      Coalesce(b.unit_label, <<>>),
      IF b.billed_units = NoUnits THEN <<>> ELSE <<ToString(b.billed_units)>>,
      IF isActive(b, now) THEN <<"active">> ELSE <<"expired">> >>

RECURSIVE DoubleQuotes(_)
\* v.replace(/"/g, '""')
DoubleQuotes(v) ==
    IF v = <<>> THEN <<>>
    ELSE (IF Head(v) = "\"" THEN <<"\"", "\"">> ELSE <<Head(v)>>) \o DoubleQuotes(Tail(v))

\* faulty variant: no value is quoted
CsvField_plain(v) == v

\* the callback of the inner map: a value with a comma is quoted
CsvField(v) ==
    IF includes(v, <<",">>) THEN <<"\"">> \o DoubleQuotes(v) \o <<"\"">> ELSE v

\* one element of rows
CsvRow(b, now) ==
    LET values == CsvValues(b, now)
    IN Join([i \in 1..Len(values) |-> CsvField(values[i])], <<",">>)

\* faulty variant: a row for every booking of the in-memory list
CsvRows_unfiltered(d) ==
    [i \in 1..Len(d.bookings) |-> CsvRow(d.bookings[i], d.now)]

\* rows
CsvRows(d) ==
    LET view == filteredAndSortedBookings(d)
    IN [i \in 1..Len(view) |-> CsvRow(view[i], d.now)]

\* csv
ExportCsv(d) == Join(<<CsvHeader>> \o CsvRows(d), <<"\n">>)

\* no file is handed to the browser
NoFile == <<"NoFile">>

\* faulty variant: the export is refused only when nothing was loaded
ExportRefused_unfiltered(d) == Len(d.bookings) = 0

\* the guard of handleExportCsv
ExportRefused(d) == Len(filteredAndSortedBookings(d)) = 0

\* what handleExportCsv does: an alert and no file, or the download of csv
handleExportCsv(d) ==
    IF ExportRefused(d)
    THEN [alert |-> TRUE, file |-> NoFile]
    ELSE [alert |-> FALSE, file |-> ExportCsv(d)]

\* a click on "CSV exportieren"; no state of the page changes, so nothing renders
DashHandleExportCsv ==
    /\ page = "dashboard"
    /\ ev' = EventOn("AdminDashboardPage", "exportCsv", "call", 0, handleExportCsv(dash))
    /\ sent' = {}
    /\ UNCHANGED <<apiBaseUrl, token, api, bp, lm, shell, ap, page, dash, mb, ab, panel, bl>>

-----------------------------------------------------------------------------
(* MyBookings *)

MBInit ==
    [isAdmin |-> FALSE, token |-> NULL, bookings |-> <<>>, isLoading |-> FALSE,
     errorMsg |-> NoError, infoMsg |-> NULL, isCancellingId |-> NULL,
     loads |-> 0, cancels |-> NoneInFlight]

MBInFlight(m) == m.loads + SumOver(m.cancels, BookingIds)

LocalMessage(msg) == Error("local", msg, 0, <<>>)

NotLoggedInMessage == "Nicht eingeloggt oder Token abgelaufen."
ForbiddenMessage == "Nur Admins können Buchungen stornieren."
NotFoundMessage == "Buchung wurde nicht gefunden (evtl. bereits gelöscht)."

\* every render of the component reads the token anew for its handlers
MBRender(m) == [m EXCEPT !.token = token]

\* the component mounts; its effect runs loadBookings
MBMount ==
    /\ page = "none"
    /\ page' = "mybookings"
    /\ \E isAdmin \in BOOLEAN :
        LET m == MBRender([MBInit EXCEPT !.isAdmin = isAdmin]) IN
        IF Falsy(m.token)
        THEN /\ mb' = [m EXCEPT !.errorMsg =
                            LocalMessage("Bitte einloggen, um deine Buchungen zu sehen.")]
             /\ sent' = {}
        ELSE /\ mb' = [m EXCEPT !.isLoading = TRUE, !.loads = @ + 1]
             /\ sent' = {Request("MyBookings", "GET", LocalBase, "/bookings/me", <<>>,
                                 Bearer(m.token))}
    /\ ev' = Event("MyBookings", "loadBookings", "call", 0)
    /\ UNCHANGED <<apiBaseUrl, token, api, bp, lm, shell, ap, dash, ab, panel, bl>>

\* err.message of what loadBookings caught
MBLoadCaught(res) ==
    IF res.net = "ok" /\ res.status = 401 THEN LocalMessage(NotLoggedInMessage)
    ELSE PageCaught(res, "Fehler beim Laden der Buchungen")

MBLoadBookingsSettle ==
    /\ mb.loads > 0
    /\ \E res \in ListResponses, data \in BookingLists :
        LET caught == MBLoadCaught(res) IN
        /\ mb' = MBRender([mb EXCEPT
                      !.bookings = IF caught = NoError THEN data ELSE @,
                      !.errorMsg = caught,
                      !.isLoading = FALSE,
                      !.loads = @ - 1])
        /\ ev' = Event("MyBookings", "loadBookings", "settle", res.status)
    /\ sent' = {}
    /\ UNCHANGED <<apiBaseUrl, token, api, bp, lm, shell, ap, page, dash, ab, panel, bl>>

\* handleCancel up to its await (the user has confirmed); only admins see the button
MBHandleCancel ==
    /\ page = "mybookings"
    /\ mb.isAdmin
    /\ MBInFlight(mb) < MaxInFlight
    /\ \E i \in 1..Len(mb.bookings) :
        LET bookingId == mb.bookings[i].id IN
        /\ mb.isCancellingId # bookingId
        /\ IF Falsy(mb.token)
           THEN /\ mb' = MBRender([mb EXCEPT !.errorMsg =
                            LocalMessage("Bitte einloggen, um Buchungen zu stornieren.")])
                /\ sent' = {}
           ELSE /\ mb' = MBRender([mb EXCEPT !.isCancellingId = bookingId,
                                             !.errorMsg = NoError, !.infoMsg = NULL,
                                             !.cancels[bookingId] = @ + 1])
                /\ sent' = {Request("MyBookings", "DELETE", LocalBase,
                                    "/bookings/" \o bookingId, <<>>, Bearer(mb.token))}
        /\ ev' = EventOn("MyBookings", "cancel", "call", 0, bookingId)
    /\ UNCHANGED <<apiBaseUrl, token, api, bp, lm, shell, ap, page, dash, ab, panel, bl>>

\* err.message of what handleCancel caught; the DELETE response is not decoded
MBCancelCaught(res) ==
    IF res.net = "fail" THEN NetworkError
    ELSE IF res.status = 401 THEN LocalMessage(NotLoggedInMessage)
    ELSE IF res.status = 403 THEN LocalMessage(ForbiddenMessage)
    ELSE IF res.status = 404 THEN LocalMessage(NotFoundMessage)
    ELSE IF ~Ok(res)
    THEN Error("api", "Fehler beim Stornieren der Buchung", res.status,
               Slice(res.body, SliceShort))
    ELSE NoError

\* handleCancel after its await
MBCancelSettle ==
    \E bookingId \in BookingIds :
        /\ mb.cancels[bookingId] > 0
        /\ \E res \in ShortResponses :
            LET caught == MBCancelCaught(res) IN
            /\ mb' = MBRender([mb EXCEPT
                          !.bookings = IF caught = NoError THEN FilterOutId(@, bookingId) ELSE @,
                          !.infoMsg = IF caught = NoError THEN "storniert" ELSE @,
                          !.errorMsg = IF caught = NoError THEN @ ELSE caught,
                          !.isCancellingId = NULL,
                          !.cancels[bookingId] = @ - 1])
            /\ ev' = EventOn("MyBookings", "cancel", "settle", res.status, bookingId)
        /\ sent' = {}
        /\ UNCHANGED <<apiBaseUrl, token, api, bp, lm, shell, ap, page, dash, ab, panel, bl>>


-----------------------------------------------------------------------------
(* AdminBoxes *)

BoxNames == {"a", "b"}

\* a unit as the admin pages hold it: its id and its editable data
BoxRecords == [id : BoxIds, name : BoxNames]

\* no draft under a key, no box found
NoBox == [id |-> "", name |-> ""]

\* the unit lists GET /boxes/ may decode to
AdminBoxLists ==
    UNION {{s \in [1..n -> BoxRecords] : \A i, j \in 1..n : i # j => s[i].id # s[j].id}
           : n \in 0..MaxListLen}

\* what the unit endpoints are answered with
BoxesResponses ==
    {r \in ShortResponses : r.net = "fail" \/ r.status = 403 \/ (Ok(r) /\ r.json = "valid")}

\* most requests a unit-management page has outstanding
MaxBoxRequests == 1

\* a request the page is waiting for: the handler, the unit, the data it sent
InFlight(op, id, name) == [op |-> op, id |-> id, name |-> name]

\* a sequence without its i-th element
RemoveAt(s, i) == SubSeq(s, 1, i - 1) \o SubSeq(s, i + 1, Len(s))

EmptyCreateForm == [id |-> "", name |-> "", device_id |-> ""]

ABInit ==
    [boxes |-> <<>>, isLoading |-> FALSE, errorMsg |-> NoError,
     savingBoxId |-> NULL, deletingBoxId |-> NULL,
     editDrafts |-> [id \in BoxIds |-> NoBox],
     createForm |-> EmptyCreateForm, createError |-> NoError, createSuccess |-> NULL,
     inflight |-> <<>>]

\* AdminBoxes' own getAuthHeaders: the Authorization header only if a token is stored
AdminBoxesAuthHeaders(tok) == IF Falsy(tok) THEN NoHeader ELSE Bearer(tok)

\* boxes.find((b) => b.id === id)
FindBox(boxes, id) ==
    IF \E i \in 1..Len(boxes) : boxes[i].id = id
    THEN boxes[CHOOSE i \in 1..Len(boxes) :
                 boxes[i].id = id /\ \A j \in 1..(i - 1) : boxes[j].id # id]
    ELSE NoBox

\* the drafts fetchBoxes builds: data.forEach((box) => drafts[box.id] = {...box})
DraftsOf(data) ==
    [id \in BoxIds |->
        IF \E i \in 1..Len(data) : data[i].id = id
        THEN data[CHOOSE i \in 1..Len(data) :
                    data[i].id = id /\ \A j \in (i + 1)..Len(data) : data[j].id # id]
        ELSE NoBox]

\* prev.map((b) => (b.id === boxId ? updated : b))
ReplaceBox(boxes, boxId, updated) ==
    [i \in 1..Len(boxes) |-> IF boxes[i].id = boxId THEN updated ELSE boxes[i]]

\* handleApiError
handleApiError(res) == Error("api", "Fehler", res.status, Slice(res.body, SliceLong))

\* fetchBoxes up to its await
fetchBoxes(a) ==
    [a EXCEPT !.isLoading = TRUE, !.errorMsg = NoError,
              !.inflight = Append(@, InFlight("fetch", "", ""))]

ABMount ==
    /\ page = "none"
    /\ page' = "adminboxes"
    /\ ab' = fetchBoxes(ABInit)
    /\ sent' = {Request("AdminBoxes", "GET", LocalBase, "/boxes/", <<>>,
                        AdminBoxesAuthHeaders(token))}
    /\ ev' = Event("AdminBoxes", "fetch", "call", 0)
    /\ UNCHANGED <<apiBaseUrl, token, api, bp, lm, shell, ap, dash, mb, panel, bl>>

\* the "Neu laden" button
ABFetchBoxes ==
    /\ page = "adminboxes"
    /\ Len(ab.inflight) < MaxBoxRequests
    /\ ab' = fetchBoxes(ab)
    /\ sent' = {Request("AdminBoxes", "GET", LocalBase, "/boxes/", <<>>,
                        AdminBoxesAuthHeaders(token))}
    /\ ev' = Event("AdminBoxes", "fetch", "call", 0)
    /\ UNCHANGED <<apiBaseUrl, token, api, bp, lm, shell, ap, page, dash, mb, panel, bl>>

\* err.message of what fetchBoxes caught
ABFetchCaught(res) ==
    IF res.net = "fail" THEN NetworkError
    ELSE IF res.status = 401 THEN LocalMessage(NotLoggedInMessage)
    ELSE IF res.status = 403
    THEN LocalMessage("Keine Admin-Rechte. Bitte mit Admin-Account einloggen.")
    ELSE IF ~Ok(res) THEN handleApiError(res)
    ELSE IF res.json = "malformed" THEN DecodeError
    ELSE NoError

\* err.message of what handleSave and handleCreateSubmit caught
ABCaught(res) ==
    IF res.net = "fail" THEN NetworkError
    ELSE IF ~Ok(res) THEN handleApiError(res)
    ELSE IF res.json = "malformed" THEN DecodeError
    ELSE NoError

\* err.message of what handleDelete caught; it does not decode the response
ABDeleteCaught(res) ==
    IF res.net = "fail" THEN NetworkError
    ELSE IF ~Ok(res) THEN handleApiError(res)
    ELSE NoError

\* fetchBoxes after its await
ABFetchSettle ==
    \E i \in 1..Len(ab.inflight), res \in BoxesResponses, data \in AdminBoxLists :
        LET caught == ABFetchCaught(res) IN
        /\ ab.inflight[i].op = "fetch"
        /\ ab' = [ab EXCEPT
                    !.boxes = IF caught = NoError THEN data ELSE @,
                    !.editDrafts = IF caught = NoError THEN DraftsOf(data) ELSE @,
                    !.errorMsg = IF caught = NoError THEN @ ELSE caught,
                    !.isLoading = FALSE,
                    !.inflight = RemoveAt(@, i)]
        /\ sent' = {}
        /\ ev' = Event("AdminBoxes", "fetch", "settle", res.status)
        /\ UNCHANGED <<apiBaseUrl, token, api, bp, lm, shell, ap, page, dash, mb, panel, bl>>

\* typing into a field of a row
updateDraftField ==
    /\ page = "adminboxes"
    /\ \E i \in 1..Len(ab.boxes), value \in BoxNames :
        LET id == ab.boxes[i].id
            old == IF ab.editDrafts[id] # NoBox THEN ab.editDrafts[id]
                   ELSE FindBox(ab.boxes, id)
        IN
        /\ ab' = [ab EXCEPT !.editDrafts[id] = [old EXCEPT !.name = value]]
        /\ ev' = EventOn("AdminBoxes", "updateDraftField", "call", 0, id)
    /\ sent' = {}
    /\ UNCHANGED <<apiBaseUrl, token, api, bp, lm, shell, ap, page, dash, mb, panel, bl>>

\* handleSave up to its await
ABHandleSave ==
    /\ page = "adminboxes"
    /\ Len(ab.inflight) < MaxBoxRequests
    /\ \E i \in 1..Len(ab.boxes) :
        LET boxId == ab.boxes[i].id
            draft == ab.editDrafts[boxId]
        IN
        /\ ab.savingBoxId # boxId
        /\ IF draft = NoBox
           THEN /\ ab' = ab
                /\ sent' = {}
           ELSE /\ ab' = [ab EXCEPT !.savingBoxId = boxId, !.errorMsg = NoError,
                                    !.inflight = Append(@, InFlight("save", boxId, draft.name))]
                /\ sent' = {Request("AdminBoxes", "PATCH", LocalBase, "/boxes/" \o boxId,
                                    <<draft.name>>, AdminBoxesAuthHeaders(token))}
        /\ ev' = EventOn("AdminBoxes", "save", "call", 0, boxId)
    /\ UNCHANGED <<apiBaseUrl, token, api, bp, lm, shell, ap, page, dash, mb, panel, bl>>

\* handleSave after its await; the backend answers with the unit as updated
ABSaveSettle ==
    \E i \in 1..Len(ab.inflight), res \in BoxesResponses :
        LET req == ab.inflight[i]
            updated == [id |-> req.id, name |-> req.name]
            caught == ABCaught(res)
        IN
        /\ req.op = "save"
        /\ ab' = [ab EXCEPT
                    !.boxes = IF caught = NoError THEN ReplaceBox(@, req.id, updated) ELSE @,
                    !.editDrafts[req.id] = IF caught = NoError THEN updated ELSE @,
                    !.errorMsg = IF caught = NoError THEN @ ELSE caught,
                    !.savingBoxId = NULL,
                    !.inflight = RemoveAt(@, i)]
        /\ sent' = {}
        /\ ev' = EventOn("AdminBoxes", "save", "settle", res.status, req.id)
        /\ UNCHANGED <<apiBaseUrl, token, api, bp, lm, shell, ap, page, dash, mb, panel, bl>>

handleResetDraft ==
    /\ page = "adminboxes"
    /\ \E i \in 1..Len(ab.boxes) :
        LET boxId == ab.boxes[i].id
            original == FindBox(ab.boxes, boxId)
        IN
        /\ ab' = [ab EXCEPT !.editDrafts[boxId] = original]
        /\ ev' = EventOn("AdminBoxes", "resetDraft", "call", 0, boxId)
    /\ sent' = {}
    /\ UNCHANGED <<apiBaseUrl, token, api, bp, lm, shell, ap, page, dash, mb, panel, bl>>

\* handleDelete up to its await (the user has confirmed)
ABHandleDelete ==
    /\ page = "adminboxes"
    /\ Len(ab.inflight) < MaxBoxRequests
    /\ \E i \in 1..Len(ab.boxes) :
        LET boxId == ab.boxes[i].id IN
        /\ ab.deletingBoxId # boxId
        /\ ab' = [ab EXCEPT !.deletingBoxId = boxId, !.errorMsg = NoError,
                            !.inflight = Append(@, InFlight("delete", boxId, ""))]
        /\ sent' = {Request("AdminBoxes", "DELETE", LocalBase, "/boxes/" \o boxId, <<>>,
                            AdminBoxesAuthHeaders(token))}
        /\ ev' = EventOn("AdminBoxes", "delete", "call", 0, boxId)
    /\ UNCHANGED <<apiBaseUrl, token, api, bp, lm, shell, ap, page, dash, mb, panel, bl>>

\* handleDelete after its await
ABDeleteSettle ==
    \E i \in 1..Len(ab.inflight), res \in BoxesResponses :
        LET req == ab.inflight[i]
            caught == ABDeleteCaught(res)
        IN
        /\ req.op = "delete"
        /\ ab' = [ab EXCEPT
                    !.boxes = IF caught = NoError
                              THEN SelectSeq(@, LAMBDA b : b.id # req.id) ELSE @,
                    !.editDrafts[req.id] = IF caught = NoError THEN NoBox ELSE @,
                    !.errorMsg = IF caught = NoError THEN @ ELSE caught,
                    !.deletingBoxId = NULL,
                    !.inflight = RemoveAt(@, i)]
        /\ sent' = {}
        /\ ev' = EventOn("AdminBoxes", "delete", "settle", res.status, req.id)
        /\ UNCHANGED <<apiBaseUrl, token, api, bp, lm, shell, ap, page, dash, mb, panel, bl>>

\* typing into the form for a new unit
handleCreateChange ==
    /\ page = "adminboxes"
    /\ \/ ab' = [ab EXCEPT !.createForm.id = "BOX-02"]
       \/ ab' = [ab EXCEPT !.createForm.name = "b"]
       \/ ab' = [ab EXCEPT !.createForm.device_id = "dev"]
    /\ sent' = {}
    /\ ev' = Event("AdminBoxes", "createChange", "call", 0)
    /\ UNCHANGED <<apiBaseUrl, token, api, bp, lm, shell, ap, page, dash, mb, panel, bl>>

\* handleCreateSubmit up to its await
ABHandleCreateSubmit ==
    /\ page = "adminboxes"
    /\ Len(ab.inflight) < MaxBoxRequests
    /\ Len(ab.boxes) < MaxListLen
    /\ LET form == ab.createForm
           a == [ab EXCEPT !.createError = NoError, !.createSuccess = NULL]
       IN
       IF form.id = ""
       THEN /\ ab' = [a EXCEPT !.createError =
                        LocalMessage("Bitte eine eindeutige ID angeben (z. B. BOX-11).")]
            /\ sent' = {}
       ELSE IF form.name = ""
       THEN /\ ab' = [a EXCEPT !.createError =
                        LocalMessage("Bitte einen Namen für die Box angeben.")]
            /\ sent' = {}
       ELSE IF form.device_id = ""
       THEN /\ ab' = [a EXCEPT !.createError =
                        LocalMessage("Bitte ein device_id angeben (z. B. TTLock-Gerät).")]
            /\ sent' = {}
       ELSE /\ ab' = [a EXCEPT !.inflight = Append(@, InFlight("create", form.id, form.name))]
            /\ sent' = {Request("AdminBoxes", "POST", LocalBase, "/boxes/",
                                <<form.id, form.name>>, AdminBoxesAuthHeaders(token))}
    /\ ev' = Event("AdminBoxes", "create", "call", 0)
    /\ UNCHANGED <<apiBaseUrl, token, api, bp, lm, shell, ap, page, dash, mb, panel, bl>>

\* handleCreateSubmit after its await; the backend answers with the unit as created
ABCreateSettle ==
    \E i \in 1..Len(ab.inflight), res \in BoxesResponses :
        LET req == ab.inflight[i]
            created == [id |-> req.id, name |-> req.name]
            caught == ABCaught(res)
        IN
        /\ req.op = "create"
        /\ ab' = IF caught = NoError
                 THEN [ab EXCEPT !.boxes = Append(@, created),
                                 !.editDrafts[created.id] = created,
                                 !.createSuccess = created.id,
                                 !.createForm = EmptyCreateForm,
                                 !.inflight = RemoveAt(@, i)]
                 ELSE [ab EXCEPT !.createError = caught,
                                 !.inflight = RemoveAt(@, i)]
        /\ sent' = {}
        /\ ev' = EventOn("AdminBoxes", "create", "settle", res.status, req.id)
        /\ UNCHANGED <<apiBaseUrl, token, api, bp, lm, shell, ap, page, dash, mb, panel, bl>>


-----------------------------------------------------------------------------
(* BoxList: the boxes available for a booking period *)

\* DURATION_OPTIONS: the keys of the periods on offer
DurationKeys == {"1h", "2h", "1d", "7d", "31d"}

\* DURATION_OPTIONS.find((d) => d.key === selectedDuration)?.minutes ?? 24 * 60
selectedDurationMinutes(key) ==
    CASE key = "1h" -> 60
      [] key = "2h" -> 2 * 60
      [] key = "1d" -> 24 * 60
      [] key = "7d" -> 7 * 24 * 60
      [] key = "31d" -> 31 * 24 * 60
      [] OTHER -> 24 * 60

\* `answered` records which request the boxes on screen came from: the
\* duration_minutes of the request whose response setBoxes was last given
BLInit ==
    [mounted |-> FALSE, boxes |-> <<>>, answered |-> 0, isLoading |-> FALSE,
     errorMsg |-> NoError, selectedDuration |-> "1d", inflight |-> <<>>]

\* err.message of what fetchBoxes caught after its fetch
BLCaught(res) ==
    IF res.net = "fail" THEN NetworkError
    ELSE IF ~Ok(res) THEN Error("api", "Fehler beim Laden der Boxen", res.status, <<>>)
    ELSE IF res.json = "malformed" THEN DecodeError
    ELSE NoError

\* fetchBoxes up to its await, for the period of this render
BLFetchBoxes(b) ==
    [b EXCEPT !.isLoading = TRUE, !.errorMsg = NoError,
              !.inflight = Append(@, selectedDurationMinutes(b.selectedDuration))]

\* GET /boxes/available?start_in_minutes=0&duration_minutes=...
FetchBoxesSent(b) ==
    {Request("BoxList", "GET", LocalBase, "/boxes/available",
             <<"0", ToString(selectedDurationMinutes(b.selectedDuration))>>, NoHeader)}

\* the component mounts with the period "1d"; the effect runs fetchBoxes
BLMount ==
    /\ ~bl.mounted
    /\ bl' = BLFetchBoxes([BLInit EXCEPT !.mounted = TRUE])
    /\ sent' = FetchBoxesSent(BLInit)
    /\ ev' = EventOn("BoxList", "fetchBoxes", "call", 0,
                     selectedDurationMinutes(BLInit.selectedDuration))
    /\ UNCHANGED <<apiBaseUrl, token, api, bp, lm, shell, ap, page, dash, mb, ab, panel>>

\* a click on a period button: setSelectedDuration(opt.key); a changed period
\* changes selectedDurationMinutes, so the effect runs fetchBoxes again
BLSetSelectedDuration ==
    /\ bl.mounted
    /\ Len(bl.inflight) < MaxInFlight
    /\ \E key \in DurationKeys \ {bl.selectedDuration} :
        LET b == [bl EXCEPT !.selectedDuration = key] IN
        /\ bl' = BLFetchBoxes(b)
        /\ sent' = FetchBoxesSent(b)
        /\ ev' = EventOn("BoxList", "fetchBoxes", "call", 0, selectedDurationMinutes(key))
    /\ UNCHANGED <<apiBaseUrl, token, api, bp, lm, shell, ap, page, dash, mb, ab, panel>>

\* setBoxes(data): each run of fetchBoxes writes the response it was given
BLBoxesAfterSettle(b, minutes, data) ==
    [b EXCEPT !.boxes = data, !.answered = minutes]

\* fetchBoxes after its await: any outstanding run may be answered next
BLFetchBoxesSettle ==
    \E i \in 1..Len(bl.inflight), res \in ShortResponses, data \in BoxLists :
        LET minutes == bl.inflight[i]
            caught == BLCaught(res)
            b == [bl EXCEPT !.isLoading = FALSE, !.inflight = RemoveAt(@, i)]
        IN
        /\ bl' = IF caught = NoError
                 THEN BLBoxesAfterSettle(b, minutes, data)
                 ELSE [b EXCEPT !.errorMsg = caught]
        /\ sent' = {}
        /\ ev' = EventOn("BoxList", "fetchBoxes", "settle", res.status, minutes)
        /\ UNCHANGED <<apiBaseUrl, token, api, bp, lm, shell, ap, page, dash, mb, ab, panel>>


-----------------------------------------------------------------------------
(* AdminPanel, App.tsx *)

EmptyNewBox == [id |-> "", name |-> ""]

PanelInit ==
    [boxes |-> <<>>, isLoading |-> FALSE, errorMsg |-> NoError, successMsg |-> NULL,
     newBox |-> EmptyNewBox, inflight |-> <<>>]

NoTokenMessage == "Kein Token vorhanden. Bitte einloggen."

\* loadBoxes up to its await, called by the mount effect ("load") or by
\* handleCreateBox ("createLoad"); without a token it throws and catches locally
loadBoxes(p, by) ==
    IF Falsy(token)
    THEN [p EXCEPT !.isLoading = FALSE, !.errorMsg = LocalMessage(NoTokenMessage),
                   !.successMsg = NULL]
    ELSE [p EXCEPT !.isLoading = TRUE, !.errorMsg = NoError, !.successMsg = NULL,
                   !.inflight = Append(@, InFlight(by, "", ""))]

\* the request loadBoxes issues
LoadBoxesSent ==
    IF Falsy(token) THEN {}
    ELSE {Request("AdminPanel", "GET", LocalBase, "/boxes/", <<>>, Bearer(token))}

PanelMount ==
    /\ page = "none"
    /\ page' = "adminpanel"
    /\ panel' = loadBoxes(PanelInit, "load")
    /\ sent' = LoadBoxesSent
    /\ ev' = Event("AdminPanel", "loadBoxes", "call", 0)
    /\ UNCHANGED <<apiBaseUrl, token, api, bp, lm, shell, ap, dash, mb, ab, bl>>

\* loadBoxes after its await; handleCreateBox then resets its form
PanelLoadBoxesSettle ==
    \E i \in 1..Len(panel.inflight), res \in BoxesResponses, data \in AdminBoxLists :
        LET req == panel.inflight[i]
            caught == PageCaught(res, "Fehler beim Laden der Boxen")
        IN
        /\ req.op \in {"load", "createLoad"}
        /\ panel' = [panel EXCEPT
                       !.boxes = IF caught = NoError THEN data ELSE @,
                       !.errorMsg = IF caught = NoError THEN @ ELSE caught,
                       !.isLoading = FALSE,
                       !.newBox = IF req.op = "createLoad" THEN EmptyNewBox ELSE @,
                       !.inflight = RemoveAt(@, i)]
        /\ sent' = {}
        /\ ev' = Event("AdminPanel", "loadBoxes", "settle", res.status)
        /\ UNCHANGED <<apiBaseUrl, token, api, bp, lm, shell, ap, page, dash, mb, ab, bl>>

handleInputChange ==
    /\ page = "adminpanel"
    /\ \/ panel' = [panel EXCEPT !.newBox.id = "BOX-02"]
       \/ panel' = [panel EXCEPT !.newBox.name = "b"]
    /\ sent' = {}
    /\ ev' = Event("AdminPanel", "inputChange", "call", 0)
    /\ UNCHANGED <<apiBaseUrl, token, api, bp, lm, shell, ap, page, dash, mb, ab, bl>>

\* handleCreateBox up to its await
PanelHandleCreateBox ==
    /\ page = "adminpanel"
    /\ Len(panel.inflight) < MaxBoxRequests
    /\ LET p == [panel EXCEPT !.errorMsg = NoError, !.successMsg = NULL] IN
       IF Falsy(token)
       THEN /\ panel' = [p EXCEPT !.errorMsg = LocalMessage(NoTokenMessage)]
            /\ sent' = {}
       ELSE /\ panel' = [p EXCEPT !.inflight =
                            Append(@, InFlight("create", p.newBox.id, p.newBox.name))]
            /\ sent' = {Request("AdminPanel", "POST", LocalBase, "/boxes/",
                                <<p.newBox.id, p.newBox.name>>, Bearer(token))}
    /\ ev' = Event("AdminPanel", "create", "call", 0)
    /\ UNCHANGED <<apiBaseUrl, token, api, bp, lm, shell, ap, page, dash, mb, ab, bl>>

\* handleCreateBox after its fetch: on success it calls loadBoxes and awaits it
PanelCreateSettle ==
    \E i \in 1..Len(panel.inflight), res \in BoxesResponses :
        LET req == panel.inflight[i]
            caught == PageCaught(res, "Fehler beim Anlegen der Box")
            p == [panel EXCEPT !.inflight = RemoveAt(@, i)]
        IN
        /\ req.op = "create"
        /\ IF caught = NoError
           THEN /\ panel' = IF Falsy(token)
                            THEN [loadBoxes(p, "createLoad") EXCEPT !.newBox = EmptyNewBox]
                            ELSE loadBoxes(p, "createLoad")
                /\ sent' = LoadBoxesSent
           ELSE /\ panel' = [p EXCEPT !.errorMsg = caught]
                /\ sent' = {}
        /\ ev' = EventOn("AdminPanel", "create", "settle", res.status, req.id)
        /\ UNCHANGED <<apiBaseUrl, token, api, bp, lm, shell, ap, page, dash, mb, ab, bl>>


-----------------------------------------------------------------------------
(* Specifications *)

Init ==
    /\ apiBaseUrl \in {NULL, ConfiguredBase}
    /\ token \in {NULL} \cup Tokens
    /\ sent = {}
    /\ ev = NoEvent
    /\ api = ApiIdle
    /\ bp = BPInit
    /\ lm = LMInit
    /\ shell = ShellInit
    /\ ap = APInit
    /\ page = "none"
    /\ dash = DashInit
    /\ mb = MBInit
    /\ ab = ABInit
    /\ panel = PanelInit
    /\ bl = BLInit

NextApi ==
    \/ CallGetMe
    \/ CallGetAvailableBoxes
    \/ CallCreateMyBooking
    \/ CallListBookingsAdmin
    \/ CallCreateBookingAdmin
    \/ CallCancelBookingAdmin
    \/ ApiSettle

SpecApi == Init /\ [][NextApi]_vars

NextBookingPage ==
    \/ BPMount
    \/ BPLoadBoxSettle
    \/ BPSetDurationDays
    \/ BPHandleSubmit
    \/ BPHandleSubmitSettle

SpecBookingPage == Init /\ [][NextBookingPage]_vars

NextSession ==
    \/ OpenLogin
    \/ CloseLogin
    \/ handleLogout
    \/ LMHandleSubmit
    \/ LMLoginSettle
    \/ LMMeSettle
    \/ LMTimer
    \/ APMount
    \/ APFetchMeSettle
    \/ APLogout

SpecSession == Init /\ [][NextSession]_vars

NextBookings ==
    \/ DashMount
    \/ DashReloadBookings
    \/ DashReloadBoxes
    \/ DashSetAutoRefresh
    \/ DashAutoRefresh
    \/ DashLoadBookingsSettle
    \/ DashLoadBoxesSettle
    \/ DashHandleCancelBooking
    \/ DashCancelSettle
    \/ MBMount
    \/ MBLoadBookingsSettle
    \/ MBHandleCancel
    \/ MBCancelSettle

SpecBookings == Init /\ [][NextBookings]_vars

\* MyBookings together with the shell's logout
NextMyBookingsSession ==
    \/ MBMount
    \/ MBLoadBookingsSettle
    \/ MBHandleCancel
    \/ MBCancelSettle
    \/ handleLogout

SpecMyBookingsSession == Init /\ [][NextMyBookingsSession]_vars

\* the dashboard once GET /admin/bookings has been answered with a list
InitView ==
    /\ apiBaseUrl = ConfiguredBase
    /\ token = "t1"
    /\ sent = {}
    /\ ev = NoEvent
    /\ api = ApiIdle
    /\ bp = BPInit
    /\ lm = LMInit
    /\ shell = ShellInit
    /\ ap = APInit
    /\ page = "dashboard"
    /\ \E data \in AdminBookingLists, n \in Instants :
        dash = [DashInit EXCEPT !.bookings = SortByCreatedDesc(data), !.now = n]
    /\ mb = MBInit
    /\ ab = ABInit
    /\ panel = PanelInit
    /\ bl = BLInit

NextView ==
    \/ DashSetSearchTerm
    \/ DashSetStatusFilter
    \/ DashToggleSort
    \/ DashRender

SpecView == InitView /\ [][NextView]_vars

\* the dashboard with a list whose texts hold commas and double quotes
InitExport ==
    /\ apiBaseUrl = ConfiguredBase
    /\ token = "t1"
    /\ sent = {}
    /\ ev = NoEvent
    /\ api = ApiIdle
    /\ bp = BPInit
    /\ lm = LMInit
    /\ shell = ShellInit
    /\ ap = APInit
    /\ page = "dashboard"
    /\ \E data \in ExportBookingLists, n \in Instants :
        dash = [DashInit EXCEPT !.bookings = SortByCreatedDesc(data), !.now = n]
    /\ mb = MBInit
    /\ ab = ABInit
    /\ panel = PanelInit
    /\ bl = BLInit

NextExport ==
    \/ DashSetSearchTerm
    \/ DashSetStatusFilter
    \/ DashToggleSort
    \/ DashHandleExportCsv

SpecExport == InitExport /\ [][NextExport]_vars

\* pages that leave the screen while their requests are under way
NextUnmount ==
    \/ APMount
    \/ APUnmount
    \/ APFetchMeSettle
    \/ DashMount
    \/ DashUnmount
    \/ DashSetAutoRefresh
    \/ DashAutoRefresh
    \/ DashLoadBookingsSettle
    \/ DashLoadBoxesSettle

SpecUnmount == Init /\ [][NextUnmount]_vars

\* the dashboard once its first loads have been answered; a token is stored or not
InitCreate ==
    /\ apiBaseUrl = ConfiguredBase
    /\ token \in {NULL, "t1"}
    /\ sent = {}
    /\ ev = NoEvent
    /\ api = ApiIdle
    /\ bp = BPInit
    /\ lm = LMInit
    /\ shell = ShellInit
    /\ ap = APInit
    /\ page = "dashboard"
    /\ \E data \in BookingLists : dash = [DashInit EXCEPT !.bookings = SortByCreatedDesc(data)]
    /\ mb = MBInit
    /\ ab = ABInit
    /\ panel = PanelInit
    /\ bl = BLInit

\* the form that creates a booking, and the reload of the boxes that follows
NextCreate ==
    \/ DashSetNewEmail
    \/ DashSetNewUserName
    \/ DashSetNewBoxId
    \/ DashSetNewDurationDays
    \/ DashHandleCreateBooking
    \/ DashCreateSettle
    \/ DashLoadBoxesSettle

SpecCreate == InitCreate /\ [][NextCreate]_vars

\* the dashboard shows a loaded list while one earlier loadBookings is still
\* unanswered: of two overlapping loads the later one was answered first
InitStale ==
    /\ apiBaseUrl = ConfiguredBase
    /\ token = "t1"
    /\ sent = {}
    /\ ev = NoEvent
    /\ api = ApiIdle
    /\ bp = BPInit
    /\ lm = LMInit
    /\ shell = ShellInit
    /\ ap = APInit
    /\ page = "dashboard"
    /\ \E data \in BookingLists :
        dash = [DashInit EXCEPT !.bookings = SortByCreatedDesc(data), !.loads = 1]
    /\ mb = MBInit
    /\ ab = ABInit
    /\ panel = PanelInit
    /\ bl = BLInit

\* cancels and the answers that arrive; no further load of bookings is issued
NextStale ==
    \/ DashHandleCancelBooking
    \/ DashCancelSettle
    \/ DashLoadBookingsSettle
    \/ DashLoadBoxesSettle

SpecStaleLoad == InitStale /\ [][NextStale]_vars

NextBoxes ==
    \/ ABMount
    \/ ABFetchBoxes
    \/ ABFetchSettle
    \/ updateDraftField
    \/ ABHandleSave
    \/ ABSaveSettle
    \/ handleResetDraft
    \/ ABHandleDelete
    \/ ABDeleteSettle
    \/ handleCreateChange
    \/ ABHandleCreateSubmit
    \/ ABCreateSettle
    \/ PanelMount
    \/ PanelLoadBoxesSettle
    \/ handleInputChange
    \/ PanelHandleCreateBox
    \/ PanelCreateSettle

\* the unit-management pages have their own base URL, and one token value is as
\* good as another to them
InitBoxes == Init /\ apiBaseUrl = ConfiguredBase /\ token \in {NULL, "t1"}

SpecBoxes == InitBoxes /\ [][NextBoxes]_vars


NextBoxList ==
    \/ BLMount
    \/ BLSetSelectedDuration
    \/ BLFetchBoxesSettle

SpecBoxList == Init /\ [][NextBoxList]_vars

-----------------------------------------------------------------------------
(* Properties of the API client *)

AuthOps == {"getMe", "createMyBooking", "listBookingsAdmin", "createBookingAdmin",
            "cancelBookingAdmin"}

ApiCalled(op) == ev.who = "api" /\ ev.op = op /\ ev.phase = "call"

\* C1: with the base URL configured and no token stored, a call of any
\* credential-requiring API function has thrown the local authentication-required
\* error and the step has issued no HTTP request.
C1_AuthRequiredBeforeRequest ==
    \A op \in AuthOps :
        (ApiCalled(op) /\ apiBaseUrl = ConfiguredBase /\ token = NULL)
            => /\ api.st = "settled"
               /\ api.result.kind = "throw"
               /\ api.result.error = AuthRequiredError
               /\ sent = {}

C1_Witness ==
    /\ ApiCalled("cancelBookingAdmin")
    /\ apiBaseUrl = ConfiguredBase
    /\ token = NULL
    /\ api.st = "settled"

\* C2: a call of getAvailableBoxes with the base URL configured always issues
\* exactly one request to /boxes/available carrying the caller's start offset and
\* duration; the request has the header Authorization: Bearer <token> exactly when
\* a token is stored and no Authorization header otherwise.
C2_OptionalAuthHeader ==
    (ApiCalled("getAvailableBoxes") /\ apiBaseUrl = ConfiguredBase)
        => /\ api.st = "awaiting"
           /\ \E s \in StartOffsets, d \in Durations :
                sent = {[by |-> "api", method |-> "GET", base |-> ConfiguredBase,
                         path |-> "/boxes/available",
                         params |-> <<ToString(s), ToString(d)>>,
                         auth |-> IF token = NULL THEN <<>> ELSE <<"Bearer", token>>]}

C2_Witness ==
    /\ ApiCalled("getAvailableBoxes")
    /\ token = "t1"
    /\ \E r \in sent : r.auth = <<"Bearer", token>>

\* C5: every error an API function raises for a non-2xx response carries the
\* response status and at most the first SliceLong characters of the body.
C5_BoundedErrorBody ==
    (ev.who = "api" /\ ev.phase = "settle" /\ api.result.kind = "throw"
        /\ api.result.error.type = "api")
        => /\ api.result.error.status = ev.status
           /\ Len(api.result.error.text) <= SliceLong

-----------------------------------------------------------------------------
(* Properties of the session *)

\* C9: a logout, by the shell's handleLogout or by the admin page's Logout button,
\* leaves no token in local storage and isLoggedIn false.
C9_LogoutLeavesAnonymous ==
    ev.op = "logout" => (token = NULL /\ ~isLoggedIn)

\* C10: a step stores a token only if it is LoginModal's continuation of a login
\* response that is 2xx and carries an access_token, and the token stored is that
\* access_token; a login that ends in an error leaves the stored value and the
\* shell's state (onLoginSuccess not called) as they were.
C10_TokenOnlyFromSuccessfulLogin ==
    [][ /\ (token' # token /\ token' # NULL)
            => /\ lm.pc = "login"
               /\ ev'.who = "LoginModal" /\ ev'.op = "login" /\ ev'.phase = "settle"
               /\ ev'.status >= 200 /\ ev'.status <= 299
               /\ lm'.loginError = NoError
               /\ ~Falsy(token')
               /\ lm'.heldToken = token'
        /\ (ev'.who = "LoginModal" /\ ev'.op = "login" /\ lm'.loginError # NoError)
            => (token' = token /\ shell' = shell)
      ]_vars

C10_Witness ==
    /\ ev = Event("LoginModal", "login", "settle", 200)
    /\ lm.pc = "me"
    /\ token = "t1"
    /\ token = lm.heldToken

\* C11: whenever no token is stored in local storage, the shell treats the user
\* as logged out (isLoggedIn is false), whoever removed the token.
C11_NoTokenMeansLoggedOut ==
    token = NULL => ~isLoggedIn

\* C12: a MyBookings handler reads the credential when it starts: started with no
\* token stored it issues no request, and every request it issues carries the
\* token that is stored at that moment.
C12_TokenReadAtStart ==
    (ev.who = "MyBookings" /\ ev.phase = "call")
        => /\ token = NULL => sent = {}
           /\ \A r \in sent : r.auth = Bearer(token)

FetchMeStep(phase) == ev.who = "AdminPage" /\ ev.op = "fetchMe" /\ ev.phase = phase

\* C13: AdminPage shows the admin panel only for a user /auth/me reported as
\* admin in a 2xx answer to the stored token; while the request is pending only
\* the loading placeholder is shown; with no token, a non-2xx answer, a user who
\* is no admin or a thrown error the page has left for "/" without showing it.
C13_AdminContentOnlyForAdmin ==
    /\ AdminPanelShown => (ap.is_admin /\ ~ap.fetching)
    /\ (ap.mounted /\ ap.fetching) => (AdminLoadingShown /\ ~AdminPanelShown)
    /\ (FetchMeStep("call") /\ token = NULL) => (sent = {} /\ ~ap.mounted)
    /\ (FetchMeStep("call") /\ token # NULL)
          => \A r \in sent : r.path = "/auth/me" /\ r.auth = Bearer(token)
    /\ (FetchMeStep("settle") /\ AdminPanelShown) => (ev.status >= 200 /\ ev.status <= 299)
    /\ (FetchMeStep("settle") /\ ~(ev.status >= 200 /\ ev.status <= 299)) => ~ap.mounted

\* /auth/me has just confirmed the admin and the panel is shown
C13_Witness ==
    /\ FetchMeStep("settle")
    /\ ev.status = 200
    /\ AdminPanelShown
    /\ ap.is_admin

-----------------------------------------------------------------------------
(* Properties of the booking lists *)

CancelSettled(who) == ev.who = who /\ ev.op = "cancel" /\ ev.phase = "settle"

\* the message the page shows for its last failed cancel
CancelMessage == IF ev.who = "AdminDashboardPage" THEN dash.alert ELSE mb.errorMsg

\* C6: after a cancel that the backend answered with 404 or 403 the page shows a
\* message of its own for that status (booking not found, insufficient
\* privilege), not the generic API error text carrying status and body.
C6_DistinctCancelMessages ==
    \A who \in {"AdminDashboardPage", "MyBookings"} :
        (CancelSettled(who) /\ ev.status \in {403, 404})
            => /\ CancelMessage.type = "local"
               /\ CancelMessage.label =
                    (IF ev.status = 404 THEN NotFoundMessage ELSE ForbiddenMessage)

\* C7: a step of a cancel handler changes the page's booking list only when it is
\* the continuation of a cancel call answered with 2xx, and then the list is the
\* previous one without the cancelled booking; a failed cancel leaves it as it was.
C7_FailedCancelKeepsList ==
    [][ /\ (ev'.who = "AdminDashboardPage" /\ ev'.op = "cancel"
                /\ dash'.bookings # dash.bookings)
            => /\ ev'.phase = "settle"
               /\ ev'.status >= 200 /\ ev'.status <= 299
               /\ dash'.bookings = FilterOutId(dash.bookings, ev'.arg)
        /\ (ev'.who = "MyBookings" /\ ev'.op = "cancel"
                /\ mb'.bookings # mb.bookings)
            => /\ ev'.phase = "settle"
               /\ ev'.status >= 200 /\ ev'.status <= 299
               /\ mb'.bookings = FilterOutId(mb.bookings, ev'.arg)
      ]_vars

\* a cancel on the dashboard was answered with 404 and the booking is still listed
C7_Witness ==
    /\ CancelSettled("AdminDashboardPage")
    /\ ev.status = 404
    /\ dash.alert.type = "api"
    /\ \E i \in 1..Len(dash.bookings) : dash.bookings[i].id = ev.arg

\* C8: after the continuation of an authenticated request that the backend
\* answered with 401, no token is stored and the application is anonymous.
C8_Unauthorized401ClearsSession ==
    (ev.phase = "settle" /\ ev.status = 401 /\ ev.op \in {"loadBookings", "cancel"})
        => (token = NULL /\ ~isLoggedIn)

-----------------------------------------------------------------------------
(* Properties of the pages' own requests *)

\* C3: with no base URL configured, BookingPage's box load and booking submit
\* issue no HTTP request and end at once with the configuration error.
C3_NoRequestWithoutBaseUrl ==
    (apiBaseUrl = NULL /\ ev.who = "BookingPage" /\ ev.phase = "call")
        => /\ sent = {}
           /\ (ev.op = "loadBox" /\ ~Falsy(bp.boxId))
                => (bp.boxError = ConfigError /\ ~bp.isLoadingBox)
           /\ (ev.op = "handleSubmit" /\ ~Falsy(token))
                => (bp.submitError = ConfigError /\ ~bp.isSubmitting)

UnitOps == {"fetch", "loadBoxes", "create", "save", "delete"}

\* C4: a unit-management handler of AdminBoxes or AdminPanel started with no token
\* stored issues no HTTP request, and every request these pages issue carries an
\* Authorization header.
C4_UnitOpsNeedToken ==
    (ev.who \in {"AdminBoxes", "AdminPanel"} /\ ev.op \in UnitOps /\ ev.phase = "call")
        => /\ token = NULL => sent = {}
           /\ \A r \in sent : r.auth # NoHeader

-----------------------------------------------------------------------------
(* Properties of the dashboard's view and KPIs *)

IdsOf(list) == {list[i].id : i \in 1..Len(list)}

\* the view of the present render had the status select been set to f
ViewWith(f) == filteredAndSortedBookings([dash EXCEPT !.statusFilter = f])

\* C14: at the instant of a render, and for one search term, sort key and direction,
\* the view under "active" and the view under "expired" share no booking and together
\* hold exactly the bookings of the view under "all".
C14_ActiveExpiredPartition ==
    /\ IdsOf(ViewWith("active")) \cap IdsOf(ViewWith("expired")) = {}
    /\ IdsOf(ViewWith("active")) \cup IdsOf(ViewWith("expired")) = IdsOf(ViewWith("all"))
    /\ Len(ViewWith("active")) + Len(ViewWith("expired")) = Len(ViewWith("all"))

\* the status select was set to "expired", both parts are inhabited, and one booking
\* ends exactly at the instant of the render
C14_Witness ==
    /\ ev.op = "setStatusFilter"
    /\ dash.statusFilter = "expired"
    /\ ViewWith("active") # <<>>
    /\ filteredAndSortedBookings(dash) # <<>>
    /\ \E i \in 1..Len(dash.bookings) : dash.bookings[i].valid_until = dash.now

\* C15: the status the page derives for a booking equals the booking's is_active
\* field when the DTO carries one, and is now < valid_until only when it carries none.
C15_StatusFollowsIsActiveField ==
    \A i \in 1..Len(dash.bookings) :
        LET b == dash.bookings[i] IN
        isActive(b, dash.now) =
            IF b.is_active # "absent" THEN b.is_active = "true"
            ELSE dash.now < b.valid_until

ViewOps == {"setSearchTerm", "setStatusFilter", "toggleSort", "render"}

\* the clock reading of the latest render
LastRenderInstant ==
    IF ev.who = "AdminDashboardPage" /\ ev.op \in ViewOps THEN ev.arg ELSE dash.now

\* C16: a booking without an is_active field is shown as active exactly when its
\* valid_until is later than the clock reading of the latest render; one that ended a
\* second before that reading is expired, one that ends an hour after it is active.
C16_ActiveIffEndsAfterRenderInstant ==
    \A i \in 1..Len(dash.bookings) :
        LET b == dash.bookings[i]
            active == b.id \in IdsOf(StatusFiltered(dash.bookings, "active", dash.now))
            expired == b.id \in IdsOf(StatusFiltered(dash.bookings, "expired", dash.now))
        IN b.is_active = "absent" =>
            /\ active = (b.valid_until > LastRenderInstant)
            /\ expired = ~active
            /\ b.valid_until = LastRenderInstant - 1000 => expired
            /\ b.valid_until = LastRenderInstant + ONE_HOUR_MS => active

\* a render later than the first instant sees one booking that ended a second ago and
\* one that ends in an hour, neither with an is_active field
C16_Witness ==
    /\ ev.who = "AdminDashboardPage" /\ ev.op \in ViewOps
    /\ ev.arg > FirstInstant
    /\ \E i, j \in 1..Len(dash.bookings) :
        /\ dash.bookings[i].is_active = "absent"
        /\ dash.bookings[j].is_active = "absent"
        /\ dash.bookings[i].valid_until = ev.arg - 1000
        /\ dash.bookings[j].valid_until = ev.arg + ONE_HOUR_MS

\* the place of a booking in the in-memory list
PlaceOf(id) == CHOOSE k \in 1..Len(dash.bookings) : dash.bookings[k].id = id

\* C17: the view is ordered by the sort key in the sort direction, and two bookings
\* of the view with equal sort-key values stand in the order they have in the
\* in-memory list, for every sort key and direction.
C17_SortIsStable ==
    LET view == filteredAndSortedBookings(dash) IN
    \A i, j \in 1..Len(view) :
        i < j =>
            /\ Compare(view[i], view[j], dash.sortKey, dash.sortDir) <= 0
            /\ SortValue(view[i], dash.sortKey) = SortValue(view[j], dash.sortKey)
                   => PlaceOf(view[i].id) < PlaceOf(view[j].id)

\* the view was sorted by creation time, descending, by a click on the column header
\* and holds two bookings created at the same instant
C17_Witness ==
    /\ ev.op = "toggleSort"
    /\ dash.sortKey = "created_at" /\ dash.sortDir = "desc"
    /\ LET view == filteredAndSortedBookings(dash) IN
       \E i, j \in 1..Len(view) : i < j /\ view[i].created_at = view[j].created_at

\* the bookings of the in-memory list that are active at the instant of the render
ActiveNow == {i \in 1..Len(dash.bookings) : isActive(dash.bookings[i], dash.now)}

\* C18: the KPIs count the in-memory list, not the view: total is its length, active
\* the number of its active bookings, active + expired = total, and a step that
\* changes the search term, the status filter or the sort while the list and the
\* instant stay the same leaves total, active and expired as they were.
C18_KpisCountUnfilteredList ==
    /\ [](/\ stats(dash).total = Len(dash.bookings)
          /\ stats(dash).active = Cardinality(ActiveNow)
          /\ stats(dash).active + stats(dash).expired = stats(dash).total)
    /\ [][(dash'.bookings = dash.bookings /\ dash'.now = dash.now)
            => /\ stats(dash').total = stats(dash).total
               /\ stats(dash').active = stats(dash).active
               /\ stats(dash').expired = stats(dash).expired]_vars

\* the status select was changed and the view leaves out bookings of a list that
\* holds active and expired ones
C18_Witness ==
    /\ ev.op = "setStatusFilter"
    /\ Len(filteredAndSortedBookings(dash)) < Len(dash.bookings)
    /\ stats(dash).active > 0
    /\ stats(dash).expired > 0

RECURSIVE PriceSum(_)
\* the prices of the bookings at the places S of the in-memory list, added up
PriceSum(S) ==
    IF S = {} THEN 0
    ELSE LET i == CHOOSE k \in S : TRUE
         IN dash.bookings[i].price_for_period + PriceSum(S \ {i})

\* C19: the active-revenue KPI is the sum of price_for_period over the bookings of
\* the in-memory list that are active at the instant of the render and have a price;
\* expired bookings and bookings without a price add nothing.
C19_RevenueOfActiveBookings ==
    stats(dash).revenueActive =
        PriceSum({i \in ActiveNow : dash.bookings[i].price_for_period # NoPrice})

\* a render of a list with a priced active booking, a priced expired booking and an
\* active booking without a price
C19_Witness ==
    /\ ev.who = "AdminDashboardPage" /\ ev.op \in ViewOps
    /\ stats(dash).revenueActive > 0
    /\ \E i \in 1..Len(dash.bookings) :
        i \notin ActiveNow /\ dash.bookings[i].price_for_period # NoPrice
    /\ \E i \in ActiveNow : dash.bookings[i].price_for_period = NoPrice

\* the search query: the search term without the blanks around it
Query == trim(dash.searchTerm)

\* text s holds text q at some place, letters compared without regard to case
ContainsIgnoringCase(s, q) ==
    \E k \in 0..(Len(s) - Len(q)) :
        \A i \in 1..Len(q) : toLowerCase(<<s[k + i]>>) = toLowerCase(<<q[i]>>)

PassesStatusFilter(b) ==
    \/ dash.statusFilter = "all"
    \/ dash.statusFilter = "active" /\ b.valid_until > dash.now
    \/ dash.statusFilter = "expired" /\ ~(b.valid_until > dash.now)

-----------------------------------------------------------------------------
(* Properties of the CSV export *)

Exported == ev.who = "AdminDashboardPage" /\ ev.op = "exportCsv"

\* C21: an export of an empty view is refused: an alert is shown and no file is
\* produced, even when the in-memory list holds bookings.
C21_EmptyViewExportsNothing ==
    (Exported /\ filteredAndSortedBookings(dash) = <<>>)
        => ev.arg.alert /\ ev.arg.file = NoFile

\* the export was clicked while the filters hid every booking of a non-empty list
C21_Witness ==
    /\ Exported
    /\ filteredAndSortedBookings(dash) = <<>>
    /\ dash.bookings # <<>>
    /\ ev.arg.file = NoFile

\* the least place of S, or otherwise when S is empty
LeastOr(S, otherwise) ==
    IF S = {} THEN otherwise ELSE CHOOSE j \in S : \A k \in S : j <= k

RECURSIVE UnDouble(_)
\* the content of a quoted field: two double quotes stand for one
UnDouble(v) ==
    IF Len(v) >= 2 /\ v[1] = "\"" /\ v[2] = "\"" THEN <<"\"">> \o UnDouble(SubSeq(v, 3, Len(v)))
    ELSE IF v = <<>> THEN <<>>
    ELSE <<v[1]>> \o UnDouble(Tail(v))

\* the double quote at place j closes the quoted field opened at place i: it ends a
\* run of double quotes of odd length
ClosesQuote(text, i, j) ==
    /\ text[j] = "\""
    /\ j = Len(text) \/ text[j + 1] # "\""
    /\ LET r == CHOOSE r \in (i + 1)..j :
                    /\ \A k \in r..j : text[k] = "\""
                    /\ r = i + 1 \/ text[r - 1] # "\""
       IN (j - r + 1) % 2 = 1

RECURSIVE ParseFrom(_, _, _, _)
\* RFC 4180 reading of text from the field that starts at place i: records end at a
\* line break, fields at a comma; a field that opens with a double quote runs to
\* its closing double quote
ParseFrom(text, i, row, rows) ==
    LET n == Len(text)
        quoted == i <= n /\ text[i] = "\""
        close == IF quoted
                 THEN LeastOr({j \in (i + 1)..n : ClosesQuote(text, i, j)}, n + 1)
                 ELSE i - 1
        end == LeastOr({j \in (close + 1)..n : text[j] \in {",", "\n"}}, n + 1)
        value == IF quoted
                 THEN UnDouble(SubSeq(text, i + 1, close - 1)) \o SubSeq(text, close + 1, end - 1)
                 ELSE SubSeq(text, i, end - 1)
    IN IF end > n THEN rows \o <<row \o <<value>>>>
       ELSE IF text[end] = "," THEN ParseFrom(text, end + 1, row \o <<value>>, rows)
       ELSE ParseFrom(text, end + 1, <<>>, rows \o <<row \o <<value>>>>)

\* the records of a CSV text, each a sequence of field values
ParseCsv(text) == ParseFrom(text, 1, <<>>, <<>>)

\* the values of the bookings of the view, in the view's order
ViewValues ==
    LET view == filteredAndSortedBookings(dash)
    IN [i \in 1..Len(view) |-> CsvValues(view[i], dash.now)]

HasComma(values) == \E k \in 1..Len(values) : includes(values[k], <<",">>)

\* the file came from a view of which no value holds a double quote without a comma
QuotesOnlyWithCommas ==
    \A i \in 1..Len(ViewValues) : \A k \in 1..Len(ViewValues[i]) :
        includes(ViewValues[i][k], <<"\"">>) => includes(ViewValues[i][k], <<",">>)

\* C22: when a file is exported from a view that has a row with a comma in a text
\* field, reading the file by RFC 4180 gives, after the header, for every row the
\* field values of the exported booking.
C22_CsvRoundTrip ==
    (Exported /\ ev.arg.file # NoFile /\ \E i \in 1..Len(ViewValues) : HasComma(ViewValues[i]))
        => Tail(ParseCsv(ev.arg.file)) = ViewValues

\* the round trip of the files whose quoted values are the ones with a comma
CsvRoundTripOfCommaValues ==
    (Exported /\ ev.arg.file # NoFile /\ QuotesOnlyWithCommas)
        => Tail(ParseCsv(ev.arg.file)) = ViewValues

\* the places of the line breaks of the exported file
LineBreaks == {j \in 1..Len(ev.arg.file) : ev.arg.file[j] = "\n"}

\* the place where line k + 1 of the exported file starts
LineStart(k) ==
    1 + CHOOSE j \in LineBreaks : Cardinality({b \in LineBreaks : b <= j}) = k

\* C23: an exported file has the header line and then one line for each booking of
\* the filtered and sorted view, in the order of the view, each starting with the id
\* of its booking; a booking the filters exclude has no line.
C23_OneLinePerViewBooking ==
    (Exported /\ ev.arg.file # NoFile) =>
        LET view == filteredAndSortedBookings(dash) IN
        /\ Cardinality(LineBreaks) = Len(view)
        /\ SubSeq(ev.arg.file, 1, LineStart(1) - 2) = CsvHeader
        /\ \A k \in 1..Len(view) : ev.arg.file[LineStart(k)] = view[k].id

\* a file was exported from a view of several bookings that a filter had narrowed and
\* a click on a column header had ordered
C23_Witness ==
    /\ Exported /\ ev.arg.file # NoFile
    /\ Len(filteredAndSortedBookings(dash)) > 1
    /\ Len(filteredAndSortedBookings(dash)) < Len(dash.bookings)
    /\ dash.sortKey # "created_at"

-----------------------------------------------------------------------------
(* Properties of requests that outlive their page *)

\* C24: a request that settles after its component has left the screen is dropped:
\* the step sets no state of the component, stores or removes no token and makes no
\* navigation.
C24_NoUpdateAfterUnmount ==
    [][ev'.phase = "settle" =>
        /\ (ev'.who = "AdminDashboardPage" /\ page # "dashboard")
              => /\ dash'.bookings = dash.bookings
                 /\ dash'.bookingsError = dash.bookingsError
                 /\ dash'.isLoadingBookings = dash.isLoadingBookings
                 /\ dash'.availableBoxes = dash.availableBoxes
                 /\ dash'.boxesError = dash.boxesError
                 /\ dash'.isLoadingBoxes = dash.isLoadingBoxes
        /\ (ev'.who = "AdminPage" /\ ~ap.mounted)
              => /\ ap'.authUser = ap.authUser
                 /\ ap'.loading = ap.loading
                 /\ token' = token]_vars

\* C25: when a load of bookings has failed while bookings of an earlier load are in
\* the in-memory list, the error is shown and the table with those bookings is
\* still rendered.
C25_FailedLoadKeepsBookingsOnScreen ==
    (/\ ev.who = "AdminDashboardPage" /\ ev.op = "loadBookings" /\ ev.phase = "settle"
     /\ page = "dashboard"
     /\ dash.bookingsError # NoError
     /\ dash.bookings # <<>>
     /\ dash.loads = 0)
        => DashTableShown

-----------------------------------------------------------------------------
(* Properties of the form that creates a booking *)

CreateStep(phase) ==
    ev.who = "AdminDashboardPage" /\ ev.op = "createBooking" /\ ev.phase = phase

-----------------------------------------------------------------------------
(* Properties of overlapping requests *)

\* C27: when a cancel has succeeded and removed its booking, the answer of a
\* loadBookings request issued before the cancel does not put the booking back.
C27_StaleLoadKeepsCancelRemoved ==
    [][(/\ ev.who = "AdminDashboardPage" /\ ev.op = "cancel" /\ ev.phase = "settle"
        /\ ev.status >= 200 /\ ev.status < 300
        /\ ev.arg \notin IdsOf(dash.bookings)
        /\ ev'.who = "AdminDashboardPage" /\ ev'.op = "loadBookings"
        /\ ev'.phase = "settle")
          => ev.arg \notin IdsOf(dash'.bookings)]_vars

\* C28: in BoxList, whenever no availability request is outstanding and the last
\* one to be answered succeeded, the boxes on screen are the response to the
\* request made for the period that is selected now
C28_BoxesAnswerSelectedDuration ==
    (/\ bl.mounted
     /\ bl.inflight = <<>>
     /\ ev.who = "BoxList" /\ ev.op = "fetchBoxes" /\ ev.phase = "settle"
     /\ ev.status = 200
     /\ bl.errorMsg = NoError)
    => bl.answered = selectedDurationMinutes(bl.selectedDuration)

-----------------------------------------------------------------------------
(* Properties of the admin page's loading flag *)

\* C29: on every path of AdminPage's fetchMe (no token, non-2xx response,
\* non-admin user, admin user, thrown error) the loading flag becomes false:
\* once fetchMe has run to its end, with no fetch of its own outstanding,
\* loading is false
C29_FetchMeEndsLoading ==
    (ev.who = "AdminPage" /\ ev.op = "fetchMe" /\ ~ap.fetching) => ~ap.loading

-----------------------------------------------------------------------------
(* Properties of the unit list and its edit drafts *)

\* Object.keys(editDrafts)
DraftKeys(a) == {id \in BoxIds : a.editDrafts[id] # NoBox}

BoxIdsOf(boxes) == {boxes[i].id : i \in 1..Len(boxes)}

UniqueBoxIds(boxes) == \A i, j \in 1..Len(boxes) : i # j => boxes[i].id # boxes[j].id

\* C30: in AdminBoxes, when the fetch, create, save, reset-draft and delete
\* operations made so far have completed, the box ids in the list are unique and
\* the set of edit-draft keys equals the set of box ids in the list
C30_BoxIdsUniqueDraftKeysMatch ==
    (page = "adminboxes" /\ ab.inflight = <<>>)
    => (UniqueBoxIds(ab.boxes) /\ DraftKeys(ab) = BoxIdsOf(ab.boxes))

\* the draft keys alone do follow the list's ids
DraftKeysFollowList ==
    (page = "adminboxes" /\ ab.inflight = <<>>) => DraftKeys(ab) = BoxIdsOf(ab.boxes)

\* a save, delete or create that failed leaves the list and the drafts as they were
FailedBoxOperationChangesNothing ==
    [][(/\ ev'.who = "AdminBoxes" /\ ev'.phase = "settle"
        /\ ev'.op \in {"save", "delete", "create"}
        /\ ~(ev'.status >= 200 /\ ev'.status <= 299))
          => (ab'.boxes = ab.boxes /\ ab'.editDrafts = ab.editDrafts)]_vars

====
